---- MODULE Spec2Model ----
(***************************************************************************)
(* Zone occupancy analysis of Backend/app/routes/feeds_routes.py.          *)
(*                                                                         *)
(* The feeds collection holds, per feed, the detection cache built by      *)
(* upload_video, the zones and the analysis history.  create_zone,         *)
(* update_zone, delete_zone and analyze_zone are request handlers; each    *)
(* database call (find_one, update_one) is one atomic step, and the        *)
(* handler's local computation belongs to the step of the call before it.  *)
(*                                                                         *)
(* Numbers: box and polygon coordinates are integers.  A float that the    *)
(* code obtains by a division (an IoU, avg_count) is the exact fraction    *)
(* <<numerator, denominator>>; fractions are compared by cross             *)
(* multiplication.  Timestamps are in milliseconds.                        *)
(***************************************************************************)
EXTENDS Integers, Sequences, FiniteSets, TLC

\* ------------------------------------------------------------------------
\* Bounds of the model
\* ------------------------------------------------------------------------
\* entries of a detection cache
MaxFrames == 2
\* boxes of a detection cache, over all its entries
MaxBoxes == 3
\* requests served in one behaviour of Spec
MaxOps == 3
\* analyses in one behaviour of AnalyzerSpec
MaxRuns == 2
\* largest box coordinate in IouSpec
MaxCoord == 2
\* requests served in one behaviour of AuthSpec
MaxAuthOps == 4

\* ------------------------------------------------------------------------
\* Program constants
\* ------------------------------------------------------------------------
\* a stricter threshold, 0.5
iou_threshold_half == <<5, 10>>
\* iou_threshold = 0.3, as the fraction 3/10
iou_threshold == <<3, 10>>
\* person['last_frame'] >= frame_idx - 10
lookback_frames == 10
\* frames per second of the uploaded video (cap.get(CAP_PROP_FPS))
Fps == 5

\* ------------------------------------------------------------------------
\* Helpers
\* ------------------------------------------------------------------------
Max2(a, b) == IF a >= b THEN a ELSE b
Min2(a, b) == IF a <= b THEN a ELSE b

RECURSIVE SumSeq(_)
SumSeq(s) == IF s = <<>> THEN 0 ELSE Head(s) + SumSeq(Tail(s))

\* np.max / np.min of a non-empty list
NpMax(s) == CHOOSE m \in {s[i] : i \in 1..Len(s)} : \A j \in 1..Len(s) : s[j] <= m
NpMin(s) == CHOOSE m \in {s[i] : i \in 1..Len(s)} : \A j \in 1..Len(s) : s[j] >= m
\* index (0-based) of the last occurrence of the maximum
NpArgmaxLast(s) ==
    (CHOOSE i \in 1..Len(s) : s[i] = NpMax(s) /\ \A j \in (i+1)..Len(s) : s[j] # NpMax(s)) - 1

\* np.argmax: index (0-based) of the first occurrence of the maximum
NpArgmax(s) == (CHOOSE i \in 1..Len(s) : s[i] = NpMax(s) /\ \A j \in 1..(i-1) : s[j] # NpMax(s)) - 1

\* comparison of two fractions with positive denominators
FracGt(a, b) == a[1] * b[2] > b[1] * a[2]

\* ------------------------------------------------------------------------
\* Geometry
\* ------------------------------------------------------------------------
\* cv2.pointPolygonTest(contour, pt, False) on integer input:
\* 0 on an edge or vertex, +1 inside, -1 outside.
PolyPrev(polygon, i) == IF i = 1 THEN polygon[Len(polygon)] ELSE polygon[i - 1]

EdgeSkipped(v0, v, p) ==
    \/ (v0[2] <= p[2] /\ v[2] <= p[2])
    \/ (v0[2] > p[2] /\ v[2] > p[2])
    \/ (v0[1] < p[1] /\ v[1] < p[1])

EdgeDist(v0, v, p) == (p[2] - v0[2]) * (v[1] - v0[1]) - (p[1] - v0[1]) * (v[2] - v0[2])

EdgeOn(v0, v, p) ==
    IF EdgeSkipped(v0, v, p)
    THEN p[2] = v[2] /\ (\/ p[1] = v[1]
                         \/ (p[2] = v0[2] /\ (\/ (v0[1] <= p[1] /\ p[1] <= v[1])
                                              \/ (v[1] <= p[1] /\ p[1] <= v0[1]))))
    ELSE EdgeDist(v0, v, p) = 0

EdgeCrossed(v0, v, p) ==
    /\ ~EdgeSkipped(v0, v, p)
    /\ (IF v[2] < v0[2] THEN 0 - EdgeDist(v0, v, p) ELSE EdgeDist(v0, v, p)) > 0

pointPolygonTest(polygon, p) ==
    IF \E i \in 1..Len(polygon) : EdgeOn(PolyPrev(polygon, i), polygon[i], p)
    THEN 0
    ELSE IF Cardinality({i \in 1..Len(polygon) :
                           EdgeCrossed(PolyPrev(polygon, i), polygon[i], p)}) % 2 = 0
         THEN -1
         ELSE 1

_is_point_in_polygon(point, polygon) == pointPolygonTest(polygon, point) >= 0

\* cx = (x1 + x2) // 2 ; cy = (y1 + y2) // 2
Centroid(box) == <<(box[1] + box[3]) \div 2, (box[2] + box[4]) \div 2>>

BoxInZone(box, polygon) == _is_point_in_polygon(Centroid(box), polygon)

\* without the return for boxes that do not overlap
calculate_iou_unclamped(box1, box2) ==
    LET intersection_area == (Min2(box1[3], box2[3]) - Max2(box1[1], box2[1]))
                               * (Min2(box1[4], box2[4]) - Max2(box1[2], box2[2]))
        union_area == (box1[3] - box1[1]) * (box1[4] - box1[2])
                        + (box2[3] - box2[1]) * (box2[4] - box2[2]) - intersection_area
    IN IF union_area > 0 THEN <<intersection_area, union_area>> ELSE <<0, 1>>

\* intersection over the area of the first box
calculate_iou_over_box1(box1, box2) ==
    LET w == Min2(box1[3], box2[3]) - Max2(box1[1], box2[1])
        h == Min2(box1[4], box2[4]) - Max2(box1[2], box2[2])
        box1_area == (box1[3] - box1[1]) * (box1[4] - box1[2])
    IN IF w < 0 \/ h < 0 \/ box1_area <= 0 THEN <<0, 1>> ELSE <<w * h, box1_area>>

calculate_iou(box1, box2) ==
    LET x_left == Max2(box1[1], box2[1])
        y_top == Max2(box1[2], box2[2])
        x_right == Min2(box1[3], box2[3])
        y_bottom == Min2(box1[4], box2[4])
        intersection_area == (x_right - x_left) * (y_bottom - y_top)
        box1_area == (box1[3] - box1[1]) * (box1[4] - box1[2])
        box2_area == (box2[3] - box2[1]) * (box2[4] - box2[2])
        union_area == box1_area + box2_area - intersection_area
    IN IF x_right < x_left \/ y_bottom < y_top
       THEN <<0, 1>>
       ELSE IF union_area > 0 THEN <<intersection_area, union_area>> ELSE <<0, 1>>

\* ------------------------------------------------------------------------
\* The analysis pass of analyze_zone
\* ------------------------------------------------------------------------
\* a box entry that is not a number (a string, null): arithmetic on it raises
NonNumeric == -999

\* x1, y1, x2, y2 = box raises unless the box has four entries, and
\* (x1 + x2) // 2, (y1 + y2) // 2 raise unless the entries are numbers
WellFormedBox(box) == Len(box) = 4 /\ \A i \in 1..4 : box[i] # NonNumeric

\* count_in_zone incremented before the box is unpacked
RECURSIVE CountInZoneBeforeUnpack(_, _)
CountInZoneBeforeUnpack(boxes, polygon) ==
    IF boxes = <<>> THEN 0
    ELSE (IF WellFormedBox(Head(boxes)) => BoxInZone(Head(boxes), polygon) THEN 1 ELSE 0)
         + CountInZoneBeforeUnpack(Tail(boxes), polygon)

\* count_in_zone: one more for each box whose centroid is in the zone
RECURSIVE CountInZone(_, _)
CountInZone(boxes, polygon) ==
    IF boxes = <<>> THEN 0
    ELSE (IF WellFormedBox(Head(boxes)) /\ BoxInZone(Head(boxes), polygon) THEN 1 ELSE 0)
         + CountInZone(Tail(boxes), polygon)

\* boxes_in_zone without the boxes whose centroid is on the boundary
RECURSIVE BoxesStrictlyInZone(_, _)
BoxesStrictlyInZone(boxes, polygon) ==
    IF boxes = <<>> THEN <<>>
    ELSE LET box == Head(boxes)
             rest == BoxesStrictlyInZone(Tail(boxes), polygon)
         IN IF WellFormedBox(box) /\ pointPolygonTest(polygon, Centroid(box)) > 0
            THEN <<box>> \o rest
            ELSE rest

\* every well-formed box of the frame, in or out of the zone
BoxesOfFrame(boxes, polygon) == SelectSeq(boxes, WellFormedBox)

\* boxes_in_zone: the boxes whose centroid is in the zone, in frame order
RECURSIVE BoxesInZone(_, _)
BoxesInZone(boxes, polygon) ==
    IF boxes = <<>> THEN <<>>
    ELSE LET box == Head(boxes)
             rest == BoxesInZone(Tail(boxes), polygon)
         IN IF WellFormedBox(box) /\ BoxInZone(box, polygon)
            THEN <<box>> \o rest
            ELSE rest

\* the search for the best match of one box among tracked_persons[k..]
NoMatch == [matched |-> FALSE, best_match_id |-> -1, best_iou |-> <<0, 1>>]

\* candidates restricted to persons last seen in an earlier frame
IsCandidateEarlierFrame(person, box, frame_idx, best) ==
    /\ person.last_frame >= frame_idx - lookback_frames
    /\ person.last_frame < frame_idx
    /\ FracGt(calculate_iou(box, person.last_box), iou_threshold)
    /\ FracGt(calculate_iou(box, person.last_box), best.best_iou)

\* candidates taken from every frame of the pass, however old
IsCandidateAnyAge(person, box, frame_idx, best) ==
    /\ FracGt(calculate_iou(box, person.last_box), iou_threshold)
    /\ FracGt(calculate_iou(box, person.last_box), best.best_iou)

IsCandidate(person, box, frame_idx, best) ==
    /\ person.last_frame >= frame_idx - lookback_frames
    /\ FracGt(calculate_iou(box, person.last_box), iou_threshold)
    /\ FracGt(calculate_iou(box, person.last_box), best.best_iou)

RECURSIVE BestMatch(_, _, _, _, _)
BestMatch(tracked_persons, k, box, frame_idx, best) ==
    IF k > Len(tracked_persons) THEN best
    ELSE LET person == tracked_persons[k]
         IN BestMatch(tracked_persons, k + 1, box, frame_idx,
                      IF IsCandidate(person, box, frame_idx, best)
                      THEN [matched |-> TRUE, best_match_id |-> person.id,
                            best_iou |-> calculate_iou(box, person.last_box)]
                      ELSE best)

\* the first person with the matched id gets the box and the frame
UpdatePerson(tracked_persons, id, box, frame_idx) ==
    LET hit == CHOOSE k \in 1..Len(tracked_persons) :
                   /\ tracked_persons[k].id = id
                   /\ \A j \in 1..(k - 1) : tracked_persons[j].id # id
    IN [tracked_persons EXCEPT ![hit] = [@ EXCEPT !.last_box = box, !.last_frame = frame_idx]]

\* a person numbered by the frame that created it
NewPersonNumberedByFrame(id, box, frame_idx) ==
    [id |-> frame_idx, first_frame |-> frame_idx, last_frame |-> frame_idx, last_box |-> box]

NewPerson(id, box, frame_idx) ==
    [id |-> id, first_frame |-> frame_idx, last_frame |-> frame_idx, last_box |-> box]

\* one in-zone box: match it or create a person
TrackBox(st, box, frame_idx) ==
    LET best == BestMatch(st.tracked_persons, 1, box, frame_idx, NoMatch)
    IN IF best.matched /\ best.best_match_id # -1
       THEN [st EXCEPT !.tracked_persons =
                           UpdatePerson(st.tracked_persons, best.best_match_id, box, frame_idx),
                       !.current_frame_persons = Append(@, best.best_match_id)]
       ELSE [st EXCEPT !.tracked_persons =
                           Append(@, NewPerson(st.next_person_id, box, frame_idx)),
                       !.current_frame_persons = Append(@, st.next_person_id),
                       !.next_person_id = @ + 1]

RECURSIVE TrackBoxes(_, _, _)
TrackBoxes(st, boxes_in_zone, frame_idx) ==
    IF boxes_in_zone = <<>> THEN st
    ELSE TrackBoxes(TrackBox(st, Head(boxes_in_zone), frame_idx), Tail(boxes_in_zone), frame_idx)

\* the stride applied to a frame number counted from one
FrameSkippedOneBased(frame_idx, frame_step) ==
    frame_step > 1 /\ ((frame_idx + 1) % frame_step) # 0

\* frame_step > 1 and frame_idx % frame_step != 0 : the frame is skipped
FrameSkipped(frame_idx, frame_step) == frame_step > 1 /\ (frame_idx % frame_step) # 0

\* a frame without in-zone boxes leaves no count
ProcessFrameDropEmpty(st, det, polygon) ==
    LET boxes_in_zone == BoxesInZone(det.boxes, polygon)
        count_in_zone == CountInZone(det.boxes, polygon)
        tracked == TrackBoxes([st EXCEPT !.current_frame_persons = <<>>],
                              boxes_in_zone, det.frame)
    IN [tracked EXCEPT !.counts = IF count_in_zone > 0 THEN Append(@, count_in_zone) ELSE @,
                       !.timestamps = Append(@, det.timestamp)]

\* a count of the persons that the frame added to tracked_persons
ProcessFrameCountNew(st, det, polygon) ==
    LET tracked == TrackBoxes([st EXCEPT !.current_frame_persons = <<>>],
                              BoxesInZone(det.boxes, polygon), det.frame)
    IN [tracked EXCEPT !.counts = Append(@, Len(tracked.tracked_persons)
                                               - Len(st.tracked_persons)),
                       !.timestamps = Append(@, det.timestamp)]

\* one cache entry that passed the stride filter
ProcessFrame(st, det, polygon) ==
    LET boxes_in_zone == BoxesInZone(det.boxes, polygon)
        count_in_zone == CountInZone(det.boxes, polygon)
        tracked == TrackBoxes([st EXCEPT !.current_frame_persons = <<>>],
                              boxes_in_zone, det.frame)
    IN [tracked EXCEPT !.counts = Append(@, count_in_zone),
                       !.timestamps = Append(@, det.timestamp)]

\* a pass that continues the counts of the zone's previous analysis
StartPassAccumulate(feed_obj, zone) ==
    [counts |-> IF zone.last_analysis = [none |-> TRUE] THEN <<>>
                ELSE zone.last_analysis.counts_per_frame,
     timestamps |-> IF zone.last_analysis = [none |-> TRUE] THEN <<>>
                    ELSE zone.last_analysis.timestamps,
     tracked_persons |-> <<>>, next_person_id |-> 0, current_frame_persons |-> <<>>]

\* counts, timestamps, tracked_persons, next_person_id at the start of a pass
StartPass(feed_obj, zone) ==
    [counts |-> <<>>, timestamps |-> <<>>, tracked_persons |-> <<>>,
     next_person_id |-> 0, current_frame_persons |-> <<>>]

\* a pass that visits the cache from its last entry to its first
RECURSIVE AnalyzePassNewestFirst(_, _, _, _)
AnalyzePassNewestFirst(st, detections_cache, polygon, frame_step) ==
    IF detections_cache = <<>> THEN st
    ELSE LET det == Head(detections_cache)
             later == AnalyzePassNewestFirst(st, Tail(detections_cache), polygon, frame_step)
         IN IF FrameSkipped(det.frame, frame_step)
            THEN later
            ELSE ProcessFrame(later, det, polygon)

RECURSIVE AnalyzePass(_, _, _, _)
AnalyzePass(st, detections_cache, polygon, frame_step) ==
    IF detections_cache = <<>> THEN st
    ELSE LET det == Head(detections_cache)
         IN AnalyzePass(IF FrameSkipped(det.frame, frame_step)
                        THEN st
                        ELSE ProcessFrame(st, det, polygon),
                        Tail(detections_cache), polygon, frame_step)

\* no check of the cache
CacheMissingNever(detections_cache) == FALSE

\* if not detections_cache
CacheMissing(detections_cache) == detections_cache = <<>>

\* "no frames" taken as "nobody counted"
NoFramesAnalyzedZero(counts) == SumSeq(counts) = 0

\* if not counts
NoFramesAnalyzed(counts) == counts = <<>>

\* the cumulative sum of the per-frame counts
TotalDetectionsSum(counts) == SumSeq(counts)

\* total_detections = peak_count
TotalDetections(counts) == NpMax(counts)

\* analysis_summary of a pass with a non-empty counts list
AnalysisSummary(st, zone, frame_step, now, user) ==
    [zone_id |-> zone.zone_id,
     zone_name |-> zone.zone_name,
     frames_analyzed |-> Len(st.counts),
     frame_step |-> frame_step,
     duration |-> st.timestamps[Len(st.timestamps)],
     avg_count |-> <<SumSeq(st.counts), Len(st.counts)>>,
     min_count |-> NpMin(st.counts),
     peak_count |-> NpMax(st.counts),
     peak_time |-> IF NpArgmax(st.counts) < Len(st.timestamps)
                   THEN st.timestamps[NpArgmax(st.counts) + 1] ELSE 0,
     total_count |-> TotalDetections(st.counts),
     total_persons_passed |-> Len(st.tracked_persons),
     counts_per_frame |-> st.counts,
     timestamps |-> st.timestamps,
     analyzed_at |-> now,
     analyzed_by |-> user]

HistoryEntry(summary, analysis_id, now) ==
    [analysis_id |-> analysis_id,
     zone_id |-> summary.zone_id,
     zone_name |-> summary.zone_name,
     timestamp |-> now,
     avg_count |-> summary.avg_count,
     peak_count |-> summary.peak_count,
     total_count |-> summary.total_count,
     total_persons_passed |-> summary.total_persons_passed,
     duration |-> summary.duration,
     analyzed_by |-> summary.analyzed_by]

\* ------------------------------------------------------------------------
\* Inputs
\* ------------------------------------------------------------------------
FeedIds == {"f1", "f2"}
Reqs == {"r1", "r2"}
Users == {"owner@x"}

\* person boxes [x1, y1, x2, y2] as _boxes_to_serializable stores them
BoxA == <<0, 0, 4, 4>>
BoxB == <<1, 0, 5, 4>>
BoxC == <<3, 0, 7, 4>>
BoxD == <<1, 2, 6, 4>>
Boxes == {BoxA, BoxB, BoxC, BoxD}

\* zone polygons a client may send
PolySquare == <<<<0, 0>>, <<6, 0>>, <<6, 6>>, <<0, 6>>>>
PolyLeft == <<<<0, 0>>, <<3, 0>>, <<3, 6>>, <<0, 6>>>>
PolySegment == <<<<0, 0>>, <<6, 6>>>>
ValidPolygons == {PolySquare, PolyLeft}
Polygons == ValidPolygons \cup {PolySegment}

ZoneNames == {"", "entrance"}

\* request bodies of update_zone: a new name, a new polygon, a polygon of
\* two points, and a body with neither field
UpdateBodies ==
    {[zone_name |-> " exit "], [polygon |-> PolyLeft], [polygon |-> PolySegment],
     [description |-> "north door"]}

\* accounts: the same email may be registered once under each role
Emails == {"a@x", "b@x"}
Roles == {"user", "admin"}

\* request bodies of register and add_user, one of them without a role
AccountBodies ==
    {[email |-> e, role |-> ro, password |-> "pw"] : e \in Emails, ro \in Roles}
        \cup {[email |-> "a@x", password |-> "pw"]}

\* request bodies of login, with the right and with a wrong password
Credentials ==
    {[email |-> e, role |-> ro, password |-> pw] :
        e \in Emails, ro \in Roles, pw \in {"pw", "guess"}}

\* request bodies of edit_user
EditBodies == {[email |-> e] : e \in Emails} \cup {[role |-> ro] : ro \in Roles}

\* frame_step as sent; 0 stands for the values below 1
FrameSteps == {0, 1, 2, 1000}
FrameIndices == {0, 1, 12}

\* timestamp = frame_idx / fps, in milliseconds
FrameTimestamp(frame_idx) == (frame_idx * 1000) \div Fps

Detection(frame_idx, boxes) ==
    [timestamp |-> FrameTimestamp(frame_idx), frame |-> frame_idx, boxes |-> boxes]

BoxSeqs(n) == UNION {[1..k -> Boxes] : k \in 0..n}

\* the caches upload_video can build on the given frame indices with at
\* most n boxes in all
RECURSIVE CachesOn(_, _)
CachesOn(frames, n) ==
    IF frames = <<>> THEN {<<>>}
    ELSE UNION {{<<Detection(Head(frames), bs)>> \o rest :
                    rest \in CachesOn(Tail(frames), n - Len(bs))} : bs \in BoxSeqs(n)}

AscendingFrames ==
    {fs \in UNION {[1..n -> FrameIndices] : n \in 0..MaxFrames} :
        \A i \in 1..(Len(fs) - 1) : fs[i] < fs[i + 1]}

GeneratedCaches == UNION {CachesOn(fs, MaxBoxes) : fs \in AscendingFrames}

\* ten entries with frame indices 0..9, one box each
TenFrameCache == [i \in 1..10 |-> Detection(i - 1, <<BoxA>>)]

\* boxes that the analysis pass cannot unpack or cannot do arithmetic on
BoxShort == <<1, 1, 3>>
BoxText == <<NonNumeric, 0, 4, 4>>
MalformedBoxes == {BoxShort, BoxText}

\* caches on the given frame indices with at most n boxes in all, well-formed
\* or not
RECURSIVE DamagedCachesOn(_, _)
DamagedCachesOn(frames, n) ==
    IF frames = <<>> THEN {<<>>}
    ELSE UNION {{<<Detection(Head(frames), bs)>> \o rest :
                    rest \in DamagedCachesOn(Tail(frames), n - Len(bs))} :
                bs \in UNION {[1..k -> {BoxA, BoxC} \cup MalformedBoxes] : k \in 0..n}}

\* the caches of one or two frames that hold a malformed box
DamagedCaches ==
    {c \in DamagedCachesOn(<<0>>, MaxBoxes) \cup DamagedCachesOn(<<0, 1>>, MaxBoxes) :
        \E k \in 1..Len(c) : \E j \in 1..Len(c[k].boxes) : c[k].boxes[j] \in MalformedBoxes}

\* ------------------------------------------------------------------------
\* State
\* ------------------------------------------------------------------------
VARIABLES
    feeds,      \* mongo.db.feeds: feed id -> feed document
    req,        \* the request handlers in flight and their last response
    next_oid,   \* ObjectId(): the next fresh id
    clock,      \* datetime.utcnow()
    ops,        \* number of requests started
    users,      \* mongo.db.users, in insertion order
    tokens,     \* the identities of the access tokens that login issued
    iou_call,   \* the last call of calculate_iou and its return value
    tracker,    \* the locals of one analysis pass, box by box
    zone_test   \* one box and polygon and the answers of the in-zone tests

vars == <<feeds, req, next_oid, clock, ops, users, tokens, iou_call, tracker, zone_test>>

\* last_analysis: None
None == [none |-> TRUE]

IdleReq ==
    [pc |-> "idle", seq |-> 0, op |-> "none", user |-> "-", feed_id |-> "-", zone_id |-> 0,
     zone_name |-> "-", polygon |-> <<>>, frame_step |-> 0, analysis |-> None,
     analysis_id |-> 0, idx |-> 0, update_fields |-> None, detections |-> <<>>,
     identity |-> None, body |-> None,
     status |-> 0, error |-> "-", wrote_zone |-> FALSE, wrote_history |-> FALSE]

\* a handler starts on the first slot that serves no request ("r1" before
\* "r2"); the slot keeps the response until it is taken again
Free(r) == req[r].pc \in {"idle", "done"}
Ready(r) == Free(r) /\ (r = "r2" => ~Free("r1"))

\* the handler returns jsonify(...), status; seq numbers the requests
Reply(op, u, f, zid, status, error) ==
    [IdleReq EXCEPT !.pc = "done", !.seq = ops + 1, !.op = op, !.user = u, !.feed_id = f,
                    !.zone_id = zid, !.status = status, !.error = error]

\* feed_doc of upload_video
FeedDoc(email, detections_cache) ==
    [email |-> email, zones |-> <<>>, detections_cache |-> detections_cache,
     analysis_history |-> <<>>]

\* zone_doc of create_zone
ZoneDoc(zone_id, zone_name, polygon, now) ==
    [zone_id |-> zone_id,
     zone_name |-> IF zone_name = "" THEN "Zone-new" ELSE zone_name,
     polygon |-> polygon, created_at |-> now, total_count |-> 0,
     last_analysis |-> None, analyzed_at |-> 0]

\* z.get("zone_id") == zone_id, for an element z that is a document
HasZoneId(z, zone_id) == "zone_id" \in DOMAIN z /\ z.zone_id = zone_id

\* indices of the zones of a feed document with the given zone_id
ZoneIndices(feed_obj, zone_id) ==
    {k \in 1..Len(feed_obj.zones) : HasZoneId(feed_obj.zones[k], zone_id)}

\* next((... for z in zones if z.get("zone_id") == zone_id), None) raises
\* AttributeError when it reaches a null element before a match
LookupRaises(zones, zone_id) ==
    \E k \in 1..Len(zones) :
        /\ zones[k] = None
        /\ \A j \in 1..(k - 1) : ~HasZoneId(zones[j], zone_id)

FirstIndex(S) == CHOOSE k \in S : \A j \in S : k <= j

\* users.find_one({"email": email}) and user.get("role") == "admin"
_is_admin_email(us, email) ==
    LET found == {k \in 1..Len(us) : us[k].email = email}
    IN found # {} /\ us[FirstIndex(found)].role = "admin"

\* current_user_email != owner_email and not _is_admin_email(current_user_email)
AccessDenied(u, f) == u # feeds[f].email /\ ~_is_admin_email(users, u)

\* ------------------------------------------------------------------------
\* get_detections
\* ------------------------------------------------------------------------
GetDetections(r, u, f) ==
    /\ Ready(r)
    /\ ops' = ops + 1
    /\ req' = [req EXCEPT ![r] =
                  IF AccessDenied(u, f)
                  THEN Reply("get_detections", u, f, 0, 403, "Access denied")
                  ELSE [Reply("get_detections", u, f, 0, 200, "-")
                          EXCEPT !.detections = feeds[f].detections_cache]]
    /\ UNCHANGED <<feeds, next_oid, clock>>

\* ------------------------------------------------------------------------
\* create_zone
\* ------------------------------------------------------------------------
PolygonAnyLength(polygon) == FALSE

\* not polygon or len(polygon) < 3
PolygonTooShort(polygon) == Len(polygon) < 3

CreateZone(r, u, f, zone_name, polygon) ==
    /\ Ready(r)
    /\ ops' = ops + 1
    /\ IF PolygonTooShort(polygon)
       THEN /\ req' = [req EXCEPT ![r] = Reply("create_zone", u, f, 0, 400,
                                               "Polygon must contain at least 3 points")]
            /\ UNCHANGED <<feeds, next_oid, clock>>
       ELSE IF AccessDenied(u, f)
       THEN /\ req' = [req EXCEPT ![r] = Reply("create_zone", u, f, 0, 403, "Access denied")]
            /\ UNCHANGED <<feeds, next_oid, clock>>
       ELSE /\ feeds' = [feeds EXCEPT ![f].zones =
                            Append(@, ZoneDoc(next_oid, zone_name, polygon, clock))]
            /\ next_oid' = next_oid + 1
            /\ req' = [req EXCEPT ![r] = Reply("create_zone", u, f, next_oid, 201, "-")]
            /\ UNCHANGED clock

\* ------------------------------------------------------------------------
\* delete_zone
\* ------------------------------------------------------------------------
\* {"$pull": {"zones": {"zone_id": zone_id}}}
PullZone(zones, zone_id) == SelectSeq(zones, LAMBDA z : ~HasZoneId(z, zone_id))

DeleteZonePurgeHistory(r, u, f, zone_id) ==
    /\ Ready(r)
    /\ ops' = ops + 1
    /\ feeds' = [feeds EXCEPT ![f].zones = PullZone(@, zone_id),
                              ![f].analysis_history =
                                  SelectSeq(@, LAMBDA e : e.zone_id # zone_id)]
    /\ req' = [req EXCEPT ![r] = Reply("delete_zone", u, f, zone_id, 200, "-")]
    /\ UNCHANGED <<next_oid, clock>>

DeleteZone(r, u, f, zone_id) ==
    /\ Ready(r)
    /\ ops' = ops + 1
    /\ feeds' = IF AccessDenied(u, f) THEN feeds
                ELSE [feeds EXCEPT ![f].zones = PullZone(@, zone_id)]
    /\ req' = [req EXCEPT ![r] =
                  IF AccessDenied(u, f)
                  THEN Reply("delete_zone", u, f, zone_id, 403, "Access denied")
                  ELSE IF ZoneIndices(feeds[f], zone_id) = {}
                  THEN Reply("delete_zone", u, f, zone_id, 404,
                             "Zone not found or already deleted")
                  ELSE Reply("delete_zone", u, f, zone_id, 200, "-")]
    /\ UNCHANGED <<next_oid, clock>>

\* ------------------------------------------------------------------------
\* update_zone
\* ------------------------------------------------------------------------
\* data["zone_name"].strip()
Strip(zone_name) == IF zone_name = " exit " THEN "exit" ELSE zone_name

\* update_fields, keyed by the field of zones.{idx} that each entry sets
UpdateFields(data) ==
    [k \in DOMAIN data \cap {"zone_name", "polygon"} |->
        IF k = "zone_name" THEN Strip(data[k]) ELSE data[k]]

\* find_one, the lookup of idx and the validation of the body
UpdateZone(r, u, f, zone_id, data) ==
    /\ Ready(r)
    /\ ops' = ops + 1
    /\ UNCHANGED <<feeds, next_oid, clock>>
    /\ LET zones == feeds[f].zones
           found == ZoneIndices(feeds[f], zone_id)
       IN req' = [req EXCEPT ![r] =
             IF AccessDenied(u, f)
             THEN Reply("update_zone", u, f, zone_id, 403, "Access denied")
             ELSE IF LookupRaises(zones, zone_id)
             THEN Reply("update_zone", u, f, zone_id, 500, "Internal Server Error")
             ELSE IF found = {}
             THEN Reply("update_zone", u, f, zone_id, 404, "Zone not found")
             ELSE IF "polygon" \in DOMAIN data /\ PolygonTooShort(data.polygon)
             THEN Reply("update_zone", u, f, zone_id, 400,
                        "Polygon must have at least 3 points")
             ELSE IF DOMAIN UpdateFields(data) = {}
             THEN Reply("update_zone", u, f, zone_id, 400, "No valid fields to update")
             ELSE [IdleReq EXCEPT !.pc = "update_write", !.seq = ops + 1,
                                  !.op = "update_zone", !.user = u, !.feed_id = f,
                                  !.zone_id = zone_id, !.idx = FirstIndex(found),
                                  !.update_fields = UpdateFields(data)]]

\* {"$set": {"zones.<idx>.<field>": value}} on an element that is null fails
SetRaises(zones, idx) == idx <= Len(zones) /\ zones[idx] = None

\* {"$set": {"zones.<idx>.<field>": value}}: the fields of the element at
\* idx are set; an idx past the end pads the array with nulls
SetZoneFields(zones, idx, update_fields) ==
    IF idx <= Len(zones)
    THEN [zones EXCEPT ![idx] =
             [k \in DOMAIN @ \cup DOMAIN update_fields |->
                 IF k \in DOMAIN update_fields THEN update_fields[k] ELSE @[k]]]
    ELSE zones \o [i \in 1..(idx - Len(zones) - 1) |-> None] \o <<update_fields>>

\* update_one({"_id": feed_id}, {"$set": update_fields})
UpdateZoneWrite(r) ==
    /\ req[r].pc = "update_write"
    /\ LET f == req[r].feed_id
       IN IF SetRaises(feeds[f].zones, req[r].idx)
          THEN /\ req' = [req EXCEPT ![r].pc = "done", ![r].status = 500,
                                     ![r].error = "Database update failed"]
               /\ UNCHANGED feeds
          ELSE /\ feeds' = [feeds EXCEPT ![f].zones =
                               SetZoneFields(@, req[r].idx, req[r].update_fields)]
               /\ req' = [req EXCEPT ![r].pc = "done", ![r].status = 200]
    /\ UNCHANGED <<next_oid, clock, ops>>

\* ------------------------------------------------------------------------
\* analyze_zone
\* ------------------------------------------------------------------------
\* find_one, the analysis pass and the statistics, up to the first write
AnalyzeZone(r, u, f, zone_id, frame_step_in) ==
    /\ Ready(r)
    /\ ops' = ops + 1
    /\ UNCHANGED <<feeds, next_oid>>
    /\ LET frame_step == IF frame_step_in < 1 THEN 1 ELSE frame_step_in
           feed_obj == feeds[f]
           found == ZoneIndices(feed_obj, zone_id)
       IN IF AccessDenied(u, f)
          THEN /\ req' = [req EXCEPT ![r] =
                             Reply("analyze_zone", u, f, zone_id, 403, "Access denied")]
               /\ UNCHANGED clock
          ELSE IF LookupRaises(feed_obj.zones, zone_id)
          THEN /\ req' = [req EXCEPT ![r] =
                             Reply("analyze_zone", u, f, zone_id, 500, "Internal Server Error")]
               /\ UNCHANGED clock
          ELSE IF found = {}
          THEN /\ req' = [req EXCEPT ![r] =
                             Reply("analyze_zone", u, f, zone_id, 404, "Zone not found")]
               /\ UNCHANGED clock
          ELSE LET zone == feed_obj.zones[FirstIndex(found)]
                   st == AnalyzePass(StartPass(feed_obj, zone), feed_obj.detections_cache,
                                     zone.polygon, frame_step)
               IN IF CacheMissing(feed_obj.detections_cache)
                  THEN /\ req' = [req EXCEPT ![r] =
                                     [Reply("analyze_zone", u, f, zone_id, 400,
                                            "No cached detections available")
                                        EXCEPT !.frame_step = frame_step,
                                               !.polygon = zone.polygon]]
                       /\ UNCHANGED clock
                  ELSE IF NoFramesAnalyzed(st.counts)
                  THEN /\ req' = [req EXCEPT ![r] =
                                     [Reply("analyze_zone", u, f, zone_id, 400,
                                            "No frames analyzed")
                                        EXCEPT !.frame_step = frame_step,
                                               !.polygon = zone.polygon]]
                       /\ UNCHANGED clock
                  ELSE /\ req' = [req EXCEPT ![r] =
                                     [IdleReq EXCEPT
                                         !.pc = "write_zone", !.seq = ops + 1,
                                         !.op = "analyze_zone",
                                         !.user = u, !.feed_id = f, !.zone_id = zone_id,
                                         !.zone_name = zone.zone_name,
                                         !.polygon = zone.polygon,
                                         !.frame_step = frame_step,
                                         !.analysis = AnalysisSummary(st, zone, frame_step,
                                                                      clock + 1, u)]]
                       /\ clock' = clock + 1

\* the first update_one:
\* {"_id": feed_id, "zones.zone_id": zone_id}, {"$set": {"zones.$. ...}}
AnalyzeWriteZoneTrimCache(r) ==
    /\ req[r].pc = "write_zone"
    /\ feeds' = [feeds EXCEPT ![req[r].feed_id].detections_cache =
                    SelectSeq(@, LAMBDA det : ~FrameSkipped(det.frame, req[r].frame_step))]
    /\ req' = [req EXCEPT ![r].pc = "write_history", ![r].wrote_zone = TRUE]
    /\ UNCHANGED <<next_oid, clock, ops>>

\* "zones.0" in the place of the positional "zones.$"
AnalyzeWriteZoneFirst(r) ==
    /\ req[r].pc = "write_zone"
    /\ feeds' = [feeds EXCEPT ![req[r].feed_id].zones[1] =
                    [@ EXCEPT !.last_analysis = req[r].analysis,
                              !.total_count = req[r].analysis.total_count,
                              !.analyzed_at = clock]]
    /\ req' = [req EXCEPT ![r].pc = "write_history", ![r].wrote_zone = TRUE]
    /\ UNCHANGED <<next_oid, clock, ops>>

AnalyzeWriteZone(r) ==
    /\ req[r].pc = "write_zone"
    /\ LET f == req[r].feed_id
           found == ZoneIndices(feeds[f], req[r].zone_id)
       IN /\ feeds' = IF found = {} THEN feeds
                      ELSE [feeds EXCEPT ![f].zones[FirstIndex(found)] =
                               [@ EXCEPT !.last_analysis = req[r].analysis,
                                         !.total_count = req[r].analysis.total_count,
                                         !.analyzed_at = clock]]
          /\ req' = [req EXCEPT ![r].pc = "write_history",
                                ![r].wrote_zone = (found # {})]
    /\ UNCHANGED <<next_oid, clock, ops>>

\* the second update_one: {"$push": {"analysis_history": history_entry}}
AnalyzeWriteHistory(r) ==
    /\ req[r].pc = "write_history"
    /\ feeds' = [feeds EXCEPT ![req[r].feed_id].analysis_history =
                    Append(@, HistoryEntry(req[r].analysis, next_oid, clock))]
    /\ next_oid' = next_oid + 1
    /\ req' = [req EXCEPT ![r].pc = "done", ![r].analysis_id = next_oid,
                          ![r].wrote_history = TRUE, ![r].status = 200]
    /\ UNCHANGED <<clock, ops>>

\* either update_one raises: except Exception -> 500
AnalyzeStoreFailure(r) ==
    /\ req[r].pc \in {"write_zone", "write_history"}
    /\ req' = [req EXCEPT ![r].pc = "done", ![r].status = 500,
                          ![r].error = "Failed to save analysis results"]
    /\ UNCHANGED <<feeds, next_oid, clock, ops>>

\* ------------------------------------------------------------------------
\* users: register, login and the admin endpoints
\* ------------------------------------------------------------------------
\* bcrypt.generate_password_hash(password)
generate_password_hash(password) == <<"bcrypt", password>>

\* bcrypt.check_password_hash raises ValueError on a stored value that is no
\* bcrypt hash
CheckRaises(pw_hash) == pw_hash[1] # "bcrypt"
check_password_hash(pw_hash, password) == pw_hash[2] = password

\* the documents that match a query, by position; find_one returns the
\* first of them in natural (insertion) order
FindUsers(us, query) ==
    {k \in 1..Len(us) : \A field \in DOMAIN query : us[k][field] = query[field]}

is_admin(us, user_email) ==
    LET found == FindUsers(us, [email |-> user_email])
    IN found # {} /\ us[FirstIndex(found)].role = "admin"

check_admin_from_jwt(us, identity) ==
    IF identity.role = "admin" THEN TRUE ELSE is_admin(us, identity.email)

\* the handler up to the insert_one; the insert is a later step
Register(r, data) ==
    /\ Ready(r)
    /\ ops' = ops + 1
    /\ UNCHANGED <<users, tokens, next_oid>>
    /\ req' = [req EXCEPT ![r] =
          IF "role" \notin DOMAIN data
          THEN [Reply("register", data.email, "-", 0, 400, "All fields are required")
                  EXCEPT !.body = data]
          ELSE IF FindUsers(users, [email |-> data.email, role |-> data.role]) # {}
          THEN [Reply("register", data.email, "-", 0, 409, "already exists")
                  EXCEPT !.body = data]
          ELSE [IdleReq EXCEPT !.pc = "insert_user", !.seq = ops + 1, !.op = "register",
                               !.user = data.email,
                               !.body = [data EXCEPT
                                           !.password = generate_password_hash(@)]]]

\* insert_one of register and of add_user
InsertUser(r) ==
    /\ req[r].pc = "insert_user"
    /\ users' = Append(users, [_id |-> next_oid, email |-> req[r].body.email,
                               role |-> req[r].body.role,
                               password |-> req[r].body.password])
    /\ next_oid' = next_oid + 1
    /\ req' = [req EXCEPT ![r].pc = "done", ![r].status = 201]
    /\ UNCHANGED <<tokens, ops>>

Login(r, data) ==
    /\ Ready(r)
    /\ ops' = ops + 1
    /\ UNCHANGED <<users, next_oid>>
    /\ LET found == FindUsers(users, [email |-> data.email, role |-> data.role])
           identity == [email |-> data.email, role |-> data.role]
       IN IF found # {} /\ CheckRaises(users[FirstIndex(found)].password)
          THEN /\ req' = [req EXCEPT ![r] =
                             Reply("login", data.email, "-", 0, 500, "Internal Server Error")]
               /\ UNCHANGED tokens
          ELSE IF /\ found # {}
                  /\ check_password_hash(users[FirstIndex(found)].password, data.password)
          THEN /\ tokens' = tokens \cup {identity}
               /\ req' = [req EXCEPT ![r] =
                             [Reply("login", data.email, "-", 0, 200, "-")
                                EXCEPT !.identity = identity]]
          ELSE /\ req' = [req EXCEPT ![r] =
                             Reply("login", data.email, "-", 0, 401, "Invalid credentials")]
               /\ UNCHANGED tokens

\* the answer of an admin endpoint to a caller that is not an admin
Denied(op, identity) ==
    [Reply(op, identity.email, "-", 0, 403, "Access denied. Admins only.")
       EXCEPT !.identity = identity]

Served(op, identity, status, error) ==
    [Reply(op, identity.email, "-", 0, status, error) EXCEPT !.identity = identity]

GetAllUsers(r, identity) ==
    /\ Ready(r)
    /\ ops' = ops + 1
    /\ UNCHANGED <<users, tokens, next_oid>>
    /\ req' = [req EXCEPT ![r] =
                  IF ~check_admin_from_jwt(users, identity)
                  THEN Denied("get_all_users", identity)
                  ELSE Served("get_all_users", identity, 200, "-")]

AddUser(r, identity, data) ==
    /\ Ready(r)
    /\ ops' = ops + 1
    /\ UNCHANGED <<users, tokens, next_oid>>
    /\ req' = [req EXCEPT ![r] =
          IF ~check_admin_from_jwt(users, identity)
          THEN Denied("add_user", identity)
          ELSE IF "role" \notin DOMAIN data
          THEN Served("add_user", identity, 400, "Missing required fields")
          ELSE IF FindUsers(users, [email |-> data.email, role |-> data.role]) # {}
          THEN Served("add_user", identity, 400, "already exists")
          ELSE [IdleReq EXCEPT !.pc = "insert_user", !.seq = ops + 1, !.op = "add_user",
                               !.user = identity.email, !.identity = identity,
                               !.body = [data EXCEPT !.password = <<"plain", @>>]]]

\* {"$set": update_fields} on the document with the given _id
SetUserFields(us, user_id, update_fields) ==
    [k \in 1..Len(us) |->
        IF us[k]._id = user_id
        THEN [field \in DOMAIN us[k] |->
                 IF field \in DOMAIN update_fields THEN update_fields[field]
                 ELSE us[k][field]]
        ELSE us[k]]

EditUser(r, identity, user_id, data) ==
    /\ Ready(r)
    /\ ops' = ops + 1
    /\ UNCHANGED <<tokens, next_oid>>
    /\ IF ~check_admin_from_jwt(users, identity)
       THEN /\ req' = [req EXCEPT ![r] = Denied("edit_user", identity)]
            /\ UNCHANGED users
       ELSE /\ users' = SetUserFields(users, user_id, data)
            /\ req' = [req EXCEPT ![r] =
                          IF users' = users
                          THEN Served("edit_user", identity, 404,
                                      "User not found or no changes made")
                          ELSE Served("edit_user", identity, 200, "-")]

DeleteUser(r, identity, user_id) ==
    /\ Ready(r)
    /\ ops' = ops + 1
    /\ UNCHANGED <<tokens, next_oid>>
    /\ IF ~check_admin_from_jwt(users, identity)
       THEN /\ req' = [req EXCEPT ![r] = Denied("delete_user", identity)]
            /\ UNCHANGED users
       ELSE /\ users' = SelectSeq(users, LAMBDA u : u._id # user_id)
            /\ req' = [req EXCEPT ![r] =
                          IF users' = users
                          THEN Served("delete_user", identity, 404, "User not found")
                          ELSE Served("delete_user", identity, 200, "-")]

\* ------------------------------------------------------------------------
\* Specifications
\* ------------------------------------------------------------------------
\* ObjectIds generated so far, plus one that names nothing
KnownIds == 1..next_oid

\* the feeds after two uploads, the second of a video on which detection
\* failed (detections_cache = [])
SystemCache(f) ==
    IF f = "f1" THEN <<Detection(0, <<BoxA>>), Detection(1, <<BoxB, BoxC>>)>> ELSE <<>>

Init ==
    /\ \E u \in Users : feeds = [f \in FeedIds |-> FeedDoc(u, SystemCache(f))]
    /\ req = [r \in Reqs |-> IdleReq]
    /\ next_oid = 1
    /\ clock = 0
    /\ ops = 0
    /\ users = <<>>
    /\ tokens = {}
    /\ iou_call = None
    /\ tracker = None
    /\ zone_test = None

GetDetectionsRequest ==
    /\ ops < MaxOps
    /\ UNCHANGED <<users, tokens, iou_call, tracker, zone_test>>
    /\ \E r \in Reqs, u \in Users, f \in FeedIds : GetDetections(r, u, f)

CreateZoneRequest ==
    /\ ops < MaxOps
    /\ UNCHANGED <<users, tokens, iou_call, tracker, zone_test>>
    /\ \E r \in Reqs, u \in Users, f \in FeedIds, n \in ZoneNames, p \in Polygons :
          CreateZone(r, u, f, n, p)

DeleteZoneRequest ==
    /\ ops < MaxOps
    /\ UNCHANGED <<users, tokens, iou_call, tracker, zone_test>>
    /\ \E r \in Reqs, u \in Users, f \in FeedIds, z \in KnownIds :
          DeleteZone(r, u, f, z)

AnalyzeZoneRequest ==
    /\ ops < MaxOps
    /\ UNCHANGED <<users, tokens, iou_call, tracker, zone_test>>
    /\ \E r \in Reqs, u \in Users, f \in FeedIds, z \in KnownIds, s \in FrameSteps :
          AnalyzeZone(r, u, f, z, s)

UpdateZoneRequest ==
    /\ ops < MaxOps
    /\ UNCHANGED <<users, tokens, iou_call, tracker, zone_test>>
    /\ \E r \in Reqs, u \in Users, f \in FeedIds, z \in KnownIds, d \in UpdateBodies :
          UpdateZone(r, u, f, z, d)

UpdateWriteStep ==
    /\ UNCHANGED <<users, tokens, iou_call, tracker, zone_test>>
    /\ \E r \in Reqs : UpdateZoneWrite(r)
WriteZoneStep ==
    /\ UNCHANGED <<users, tokens, iou_call, tracker, zone_test>>
    /\ \E r \in Reqs : AnalyzeWriteZone(r)
WriteHistoryStep ==
    /\ UNCHANGED <<users, tokens, iou_call, tracker, zone_test>>
    /\ \E r \in Reqs : AnalyzeWriteHistory(r)
StoreFailureStep ==
    /\ UNCHANGED <<users, tokens, iou_call, tracker, zone_test>>
    /\ \E r \in Reqs : AnalyzeStoreFailure(r)

Next ==
    \/ GetDetectionsRequest
    \/ CreateZoneRequest
    \/ DeleteZoneRequest
    \/ UpdateZoneRequest
    \/ AnalyzeZoneRequest
    \/ UpdateWriteStep
    \/ WriteZoneStep
    \/ WriteHistoryStep
    \/ StoreFailureStep

Spec == Init /\ [][Next]_vars

\* The analyzer alone: one feed with one zone, analysed repeatedly by one
\* handler at a time with storage that does not fail, over every cache,
\* polygon and stride of the bounded input sets.
AnalyzerCaches == GeneratedCaches \cup {TenFrameCache}

AnalyzerInit ==
    /\ \E c \in AnalyzerCaches, p \in ValidPolygons, u \in Users :
          feeds = [f \in FeedIds |->
                      IF f = "f1"
                      THEN [FeedDoc(u, c) EXCEPT !.zones = <<ZoneDoc(1, "entrance", p, 0)>>]
                      ELSE FeedDoc(u, <<>>)]
    /\ req = [r \in Reqs |-> IdleReq]
    /\ next_oid = 2
    /\ clock = 0
    /\ ops = 0
    /\ users = <<>>
    /\ tokens = {}
    /\ iou_call = None
    /\ tracker = None
    /\ zone_test = None

\* the first run draws the stride, the later runs repeat the request
AnalyzerRun ==
    /\ ops < MaxRuns
    /\ UNCHANGED <<users, tokens, iou_call, tracker, zone_test>>
    /\ \E u \in Users, s \in FrameSteps :
          /\ ops = 0 \/ s = req["r1"].frame_step
          /\ AnalyzeZone("r1", u, "f1", 1, s)

AnalyzerNext ==
    \/ AnalyzerRun
    \/ WriteZoneStep
    \/ WriteHistoryStep

AnalyzerSpec == AnalyzerInit /\ [][AnalyzerNext]_vars

\* The accounts: register, login and the admin endpoints on an empty users
\* collection; an admin endpoint is called with a token that login issued.
AuthInit ==
    /\ \E u \in Users : feeds = [f \in FeedIds |-> FeedDoc(u, SystemCache(f))]
    /\ req = [r \in Reqs |-> IdleReq]
    /\ next_oid = 1
    /\ clock = 0
    /\ ops = 0
    /\ users = <<>>
    /\ tokens = {}
    /\ iou_call = None
    /\ tracker = None
    /\ zone_test = None

RegisterRequest ==
    /\ ops < MaxAuthOps
    /\ UNCHANGED <<feeds, clock, iou_call, tracker, zone_test>>
    /\ \E r \in Reqs, d \in AccountBodies : Register(r, d)

LoginRequest ==
    /\ ops < MaxAuthOps
    /\ UNCHANGED <<feeds, clock, iou_call, tracker, zone_test>>
    /\ \E r \in Reqs, d \in Credentials : Login(r, d)

GetAllUsersRequest ==
    /\ ops < MaxAuthOps
    /\ UNCHANGED <<feeds, clock, iou_call, tracker, zone_test>>
    /\ \E r \in Reqs, i \in tokens : GetAllUsers(r, i)

AddUserRequest ==
    /\ ops < MaxAuthOps
    /\ UNCHANGED <<feeds, clock, iou_call, tracker, zone_test>>
    /\ \E r \in Reqs, i \in tokens, d \in AccountBodies : AddUser(r, i, d)

EditUserRequest ==
    /\ ops < MaxAuthOps
    /\ UNCHANGED <<feeds, clock, iou_call, tracker, zone_test>>
    /\ \E r \in Reqs, i \in tokens, id \in KnownIds, d \in EditBodies :
          EditUser(r, i, id, d)

DeleteUserRequest ==
    /\ ops < MaxAuthOps
    /\ UNCHANGED <<feeds, clock, iou_call, tracker, zone_test>>
    /\ \E r \in Reqs, i \in tokens, id \in KnownIds : DeleteUser(r, i, id)

InsertUserStep ==
    /\ UNCHANGED <<feeds, clock, iou_call, tracker, zone_test>>
    /\ \E r \in Reqs : InsertUser(r)

AuthNext ==
    \/ RegisterRequest
    \/ LoginRequest
    \/ GetAllUsersRequest
    \/ AddUserRequest
    \/ EditUserRequest
    \/ DeleteUserRequest
    \/ InsertUserStep

AuthSpec == AuthInit /\ [][AuthNext]_vars

\* Analyses in flight together: two feeds with caches, three zones, and
\* analyze_zone handlers that overlap, with storage that does not fail.
SecondCache == <<Detection(0, <<BoxC>>), Detection(12, <<BoxA, BoxC>>)>>

ConcurrentInit ==
    /\ \E u \in Users :
          feeds = [f \in FeedIds |->
                      IF f = "f1"
                      THEN [FeedDoc(u, SystemCache(f)) EXCEPT
                               !.zones = <<ZoneDoc(1, "entrance", PolySquare, 0),
                                           ZoneDoc(2, "exit", PolyLeft, 0)>>]
                      ELSE [FeedDoc(u, SecondCache) EXCEPT
                               !.zones = <<ZoneDoc(3, "hall", PolySquare, 0)>>]]
    /\ req = [r \in Reqs |-> IdleReq]
    /\ next_oid = 4
    /\ clock = 0
    /\ ops = 0
    /\ users = <<>>
    /\ tokens = {}
    /\ iou_call = None
    /\ tracker = None
    /\ zone_test = None

ConcurrentRun ==
    /\ ops < MaxRuns
    /\ UNCHANGED <<users, tokens, iou_call, tracker, zone_test>>
    /\ \E r \in Reqs, u \in Users, f \in FeedIds, z \in 1..3, s \in FrameSteps :
          AnalyzeZone(r, u, f, z, s)

ConcurrentNext ==
    \/ ConcurrentRun
    \/ WriteZoneStep
    \/ WriteHistoryStep

ConcurrentSpec == ConcurrentInit /\ [][ConcurrentNext]_vars

\* calculate_iou alone, called on every pair of boxes on a small grid, once
\* as (box1, box2) and once as (box2, box1).
GridBoxes ==
    {<<x1, y1, x2, y2>> : x1 \in 0..MaxCoord, y1 \in 0..MaxCoord,
                         x2 \in 0..MaxCoord, y2 \in 0..MaxCoord}
DetectedBoxes == {b \in GridBoxes : b[1] <= b[3] /\ b[2] <= b[4]}

IouInit ==
    /\ \E u \in Users : feeds = [f \in FeedIds |-> FeedDoc(u, SystemCache(f))]
    /\ req = [r \in Reqs |-> IdleReq]
    /\ next_oid = 1
    /\ clock = 0
    /\ ops = 0
    /\ users = <<>>
    /\ tokens = {}
    /\ \E a \in DetectedBoxes, b \in DetectedBoxes :
          iou_call = [box1 |-> a, box2 |-> b, iou |-> <<>>, iou_swapped |-> <<>>]
    /\ tracker = None
    /\ zone_test = None

CalculateIou ==
    /\ iou_call.iou = <<>>
    /\ iou_call' = [iou_call EXCEPT !.iou = calculate_iou(iou_call.box1, iou_call.box2)]
    /\ UNCHANGED <<feeds, req, next_oid, clock, ops, users, tokens, tracker, zone_test>>

CalculateIouSwapped ==
    /\ iou_call.iou_swapped = <<>>
    /\ iou_call' = [iou_call EXCEPT
                       !.iou_swapped = calculate_iou(iou_call.box2, iou_call.box1)]
    /\ UNCHANGED <<feeds, req, next_oid, clock, ops, users, tokens, tracker, zone_test>>

IouNext ==
    \/ CalculateIou
    \/ CalculateIouSwapped

IouSpec == IouInit /\ [][IouNext]_vars

\* The analyzer on a feed whose stored cache holds malformed boxes.
MalformedInit ==
    /\ \E c \in DamagedCaches, p \in ValidPolygons, u \in Users :
          feeds = [f \in FeedIds |->
                      IF f = "f1"
                      THEN [FeedDoc(u, c) EXCEPT !.zones = <<ZoneDoc(1, "entrance", p, 0)>>]
                      ELSE FeedDoc(u, <<>>)]
    /\ req = [r \in Reqs |-> IdleReq]
    /\ next_oid = 2
    /\ clock = 0
    /\ ops = 0
    /\ users = <<>>
    /\ tokens = {}
    /\ iou_call = None
    /\ tracker = None
    /\ zone_test = None

MalformedSpec == MalformedInit /\ [][AnalyzerNext]_vars

\* ------------------------------------------------------------------------
\* Feed endpoints called with the tokens that login has issued
\* ------------------------------------------------------------------------
\* f1 belongs to b@x and has one zone, f2 belongs to a@x
AccessInit ==
    /\ feeds = [f \in FeedIds |->
                   IF f = "f1"
                   THEN [FeedDoc("b@x", SystemCache(f)) EXCEPT
                            !.zones = <<ZoneDoc(1, "entrance", PolySquare, 0)>>]
                   ELSE FeedDoc("a@x", SystemCache(f))]
    /\ req = [r \in Reqs |-> IdleReq]
    /\ next_oid = 2
    /\ clock = 0
    /\ ops = 0
    /\ users = <<>>
    /\ tokens = {}
    /\ iou_call = None
    /\ tracker = None
    /\ zone_test = None

\* _get_email_from_jwt: the caller is the email of the token's identity
CallerGetDetections ==
    /\ ops < MaxAuthOps
    /\ UNCHANGED <<users, tokens, iou_call, tracker, zone_test>>
    /\ \E i \in tokens, f \in FeedIds : GetDetections("r1", i.email, f)

CallerCreateZone ==
    /\ ops < MaxAuthOps
    /\ UNCHANGED <<users, tokens, iou_call, tracker, zone_test>>
    /\ \E i \in tokens, f \in FeedIds, p \in {PolyLeft, PolySegment} :
          CreateZone("r1", i.email, f, "entrance", p)

CallerDeleteZone ==
    /\ ops < MaxAuthOps
    /\ UNCHANGED <<users, tokens, iou_call, tracker, zone_test>>
    /\ \E i \in tokens, f \in FeedIds : DeleteZone("r1", i.email, f, 1)

CallerUpdateZone ==
    /\ ops < MaxAuthOps
    /\ UNCHANGED <<users, tokens, iou_call, tracker, zone_test>>
    /\ \E i \in tokens, f \in FeedIds :
          UpdateZone("r1", i.email, f, 1, [polygon |-> PolyLeft])

CallerAnalyzeZone ==
    /\ ops < MaxAuthOps
    /\ UNCHANGED <<users, tokens, iou_call, tracker, zone_test>>
    /\ \E i \in tokens, f \in FeedIds : AnalyzeZone("r1", i.email, f, 1, 1)

AccessNext ==
    \/ RegisterRequest
    \/ InsertUserStep
    \/ LoginRequest
    \/ CallerGetDetections
    \/ CallerCreateZone
    \/ CallerDeleteZone
    \/ CallerUpdateZone
    \/ CallerAnalyzeZone
    \/ UpdateWriteStep
    \/ WriteZoneStep
    \/ WriteHistoryStep

AccessSpec == AccessInit /\ [][AccessNext]_vars

\* ------------------------------------------------------------------------
\* Zone edits on a feed that already has two zones
\* ------------------------------------------------------------------------
ZoneEditInit ==
    /\ \E u \in Users :
          feeds = [f \in FeedIds |->
                      IF f = "f1"
                      THEN [FeedDoc(u, SystemCache(f)) EXCEPT
                               !.zones = <<ZoneDoc(1, "entrance", PolySquare, 0),
                                           ZoneDoc(2, "exit", PolyLeft, 0)>>]
                      ELSE FeedDoc(u, SystemCache(f))]
    /\ req = [r \in Reqs |-> IdleReq]
    /\ next_oid = 3
    /\ clock = 0
    /\ ops = 0
    /\ users = <<>>
    /\ tokens = {}
    /\ iou_call = None
    /\ tracker = None
    /\ zone_test = None

ZoneEditNext ==
    \/ CreateZoneRequest
    \/ DeleteZoneRequest
    \/ UpdateZoneRequest
    \/ UpdateWriteStep

ZoneEditSpec == ZoneEditInit /\ [][ZoneEditNext]_vars

\* ------------------------------------------------------------------------
\* The loop of analyze_zone, one iteration per step
\* ------------------------------------------------------------------------
\* tracker holds the locals of the loop: the cache and the position of the
\* outer for, the in-zone boxes the inner for has still to visit, and the
\* pass state st (counts, timestamps, tracked_persons, next_person_id,
\* current_frame_persons).
TrackerSteps == {1, 2}

TrackerInit ==
    /\ \E u \in Users : feeds = [f \in FeedIds |-> FeedDoc(u, SystemCache(f))]
    /\ req = [r \in Reqs |-> IdleReq]
    /\ next_oid = 1
    /\ clock = 0
    /\ ops = 0
    /\ users = <<>>
    /\ tokens = {}
    /\ iou_call = None
    /\ zone_test = None
    /\ \E c \in GeneratedCaches, p \in ValidPolygons, s \in TrackerSteps :
          tracker = [detections_cache |-> c, polygon |-> p, frame_step |-> s,
                     pc |-> "for_det", pos |-> 1, frame_idx |-> -1,
                     boxes_in_zone |-> <<>>, count_in_zone |-> 0,
                     st |-> StartPass(FeedDoc("owner@x", c), ZoneDoc(1, "entrance", p, 0)),
                     total_persons_passed |-> -1]

TrackerRest == <<feeds, req, next_oid, clock, ops, users, tokens, iou_call, zone_test>>

\* the stride filter drops the entry: continue
SkipFrame ==
    /\ tracker.pc = "for_det"
    /\ tracker.pos <= Len(tracker.detections_cache)
    /\ FrameSkipped(tracker.detections_cache[tracker.pos].frame, tracker.frame_step)
    /\ tracker' = [tracker EXCEPT !.pos = @ + 1]
    /\ UNCHANGED TrackerRest

\* the entry passes: its boxes are tested against the polygon
EnterFrame ==
    /\ tracker.pc = "for_det"
    /\ tracker.pos <= Len(tracker.detections_cache)
    /\ LET det == tracker.detections_cache[tracker.pos]
       IN /\ ~FrameSkipped(det.frame, tracker.frame_step)
          /\ tracker' = [tracker EXCEPT
                            !.pc = "for_box",
                            !.frame_idx = det.frame,
                            !.boxes_in_zone = BoxesInZone(det.boxes, tracker.polygon),
                            !.count_in_zone = CountInZone(det.boxes, tracker.polygon),
                            !.st = [@ EXCEPT !.current_frame_persons = <<>>]]
    /\ UNCHANGED TrackerRest

\* one iteration of "for box in boxes_in_zone"
MatchBox ==
    /\ tracker.pc = "for_box"
    /\ tracker.boxes_in_zone # <<>>
    /\ tracker' = [tracker EXCEPT
                      !.st = TrackBox(@, Head(tracker.boxes_in_zone), tracker.frame_idx),
                      !.boxes_in_zone = Tail(@)]
    /\ UNCHANGED TrackerRest

\* counts.append(count_in_zone); timestamps.append(...)
EndFrame ==
    /\ tracker.pc = "for_box"
    /\ tracker.boxes_in_zone = <<>>
    /\ tracker' = [tracker EXCEPT
                      !.pc = "for_det",
                      !.pos = @ + 1,
                      !.st = [@ EXCEPT
                                 !.counts = Append(@, tracker.count_in_zone),
                                 !.timestamps =
                                     Append(@, tracker.detections_cache[tracker.pos].timestamp)]]
    /\ UNCHANGED TrackerRest

\* the cache is exhausted: total_persons_passed = len(tracked_persons)
EndPass ==
    /\ tracker.pc = "for_det"
    /\ tracker.pos > Len(tracker.detections_cache)
    /\ tracker' = [tracker EXCEPT
                      !.pc = "done",
                      !.total_persons_passed = Len(tracker.st.tracked_persons)]
    /\ UNCHANGED TrackerRest

TrackerNext ==
    \/ SkipFrame
    \/ EnterFrame
    \/ MatchBox
    \/ EndFrame
    \/ EndPass

TrackerSpec == TrackerInit /\ [][TrackerNext]_vars

\* ------------------------------------------------------------------------
\* The three places that classify a box as in-zone
\* ------------------------------------------------------------------------
\* center_x = (x1 + x2) / 2 ; center_y = (y1 + y2) / 2 : true division, so
\* the centre is kept exactly, here in units of one half
CenterHalves(box) == <<box[1] + box[3], box[2] + box[4]>>

ScalePolygon(polygon, k) == [i \in 1..Len(polygon) |-> <<k * polygon[i][1], k * polygon[i][2]>>]

\* pointPolygonTest on a point given in halves: the comparisons and the sign
\* of the cross product are those of the polygon and the point both doubled
pointPolygonTestHalves(polygon, h) == pointPolygonTest(ScalePolygon(polygon, 2), h)

_is_box_in_zone(box, polygon) ==
    /\ WellFormedBox(box)
    /\ pointPolygonTestHalves(polygon, CenterHalves(box)) >= 0

\* analyze_frame: the box is kept if its centre is in any of the zones
InAnyZone(box, zones) ==
    /\ WellFormedBox(box)
    /\ \E i \in 1..Len(zones) : _is_point_in_polygon(Centroid(box), zones[i])

PolyUnit == <<<<0, 0>>, <<1, 0>>, <<1, 1>>, <<0, 1>>>>
ZoneTestPolygons == ValidPolygons \cup {PolyUnit}

Answer(b) == IF b THEN "in" ELSE "out"

ZoneTestInit ==
    /\ \E u \in Users : feeds = [f \in FeedIds |-> FeedDoc(u, SystemCache(f))]
    /\ req = [r \in Reqs |-> IdleReq]
    /\ next_oid = 1
    /\ clock = 0
    /\ ops = 0
    /\ users = <<>>
    /\ tokens = {}
    /\ iou_call = None
    /\ tracker = None
    /\ \E b \in DetectedBoxes, p \in ZoneTestPolygons :
          zone_test = [box |-> b, polygon |-> p, is_box_in_zone |-> "-",
                       analyze_zone |-> "-", analyze_frame |-> "-"]

ZoneTestRest == <<feeds, req, next_oid, clock, ops, users, tokens, iou_call, tracker>>

IsBoxInZone ==
    /\ zone_test.is_box_in_zone = "-"
    /\ zone_test' = [zone_test EXCEPT !.is_box_in_zone =
                         Answer(_is_box_in_zone(zone_test.box, zone_test.polygon))]
    /\ UNCHANGED ZoneTestRest

\* the per-box test of analyze_zone on a frame that holds this box alone
AnalyzeZoneTest ==
    /\ zone_test.analyze_zone = "-"
    /\ zone_test' = [zone_test EXCEPT !.analyze_zone =
                         Answer(BoxesInZone(<<zone_test.box>>, zone_test.polygon) # <<>>)]
    /\ UNCHANGED ZoneTestRest

\* the per-box test of analyze_frame with this polygon as the only zone
AnalyzeFrameTest ==
    /\ zone_test.analyze_frame = "-"
    /\ zone_test' = [zone_test EXCEPT !.analyze_frame =
                         Answer(InAnyZone(zone_test.box, <<zone_test.polygon>>))]
    /\ UNCHANGED ZoneTestRest

ZoneTestNext ==
    \/ IsBoxInZone
    \/ AnalyzeZoneTest
    \/ AnalyzeFrameTest

ZoneTestSpec == ZoneTestInit /\ [][ZoneTestNext]_vars

\* ------------------------------------------------------------------------
\* Properties
\* ------------------------------------------------------------------------
\* the requests that ran analyze_zone and found their zone
Analyses ==
    {r \in Reqs : /\ req[r].op = "analyze_zone"
                  /\ req[r].status \notin {403, 404}
                  /\ req[r].error # "Internal Server Error"}

\* the requests whose analysis pass produced a summary
Summaries == {r \in Analyses : req[r].analysis # None}

AnalysedCache(r) == feeds[req[r].feed_id].detections_cache

\* the zone of the request, while it is stored on the feed
ZoneStored(r) == ZoneIndices(feeds[req[r].feed_id], req[r].zone_id) # {}
ZoneOf(r) ==
    feeds[req[r].feed_id].zones[FirstIndex(ZoneIndices(feeds[req[r].feed_id], req[r].zone_id))]

\* the positions of the cache entries that the stride keeps
Surviving(cache, frame_step) == {k \in 1..Len(cache) : cache[k].frame % frame_step = 0}

\* the boxes of a cache entry with their centroid in or on the polygon
InZonePositions(det, polygon) ==
    {j \in 1..Len(det.boxes) : BoxInZone(det.boxes[j], polygon)}

IsMaxOf(m, s) == (\E i \in 1..Len(s) : s[i] = m) /\ (\A i \in 1..Len(s) : s[i] <= m)

\* C1: analyze_zone of a zone on a feed with an empty detection cache answers
\* 400 "No cached detections available", is finished with that answer, and
\* the step leaves every feed document (zones, last_analysis, total_count,
\* analysis_history) as it was.
C1_EmptyCacheInsufficientData ==
    [][\A r \in Reqs :
          (/\ req'[r].seq # req[r].seq
           /\ req'[r].op = "analyze_zone"
           /\ ZoneIndices(feeds[req'[r].feed_id], req'[r].zone_id) # {}
           /\ feeds[req'[r].feed_id].detections_cache = <<>>)
          => (/\ req'[r].pc = "done"
              /\ req'[r].status = 400
              /\ req'[r].error = "No cached detections available"
              /\ req'[r].analysis = None
              /\ feeds' = feeds)]_vars

C1_Witness ==
    \E r \in Reqs :
        /\ req[r].op = "analyze_zone"
        /\ req[r].error = "No cached detections available"
        /\ AnalysedCache(r) = <<>>
        /\ ZoneStored(r)
        /\ ZoneOf(r).last_analysis = None
        /\ feeds[req[r].feed_id].analysis_history = <<>>

\* C2: on a non-empty cache analyze_zone answers "No frames analyzed"
\* exactly when no cache entry has frame % frame_step = 0; when an entry
\* survives, a summary is produced and the answer is 200 unless a write to
\* storage raised; if no box of a surviving entry is in the zone the summary
\* has only zero counts.
C2_NoFramesIffNoneSurvive ==
    \A r \in Analyses :
        AnalysedCache(r) # <<>> =>
            /\ (req[r].error = "No frames analyzed")
                  <=> (Surviving(AnalysedCache(r), req[r].frame_step) = {})
            /\ Surviving(AnalysedCache(r), req[r].frame_step) # {} =>
                  /\ req[r].analysis # None
                  /\ req[r].pc = "done" =>
                        \/ req[r].status = 200
                        \/ req[r].error = "Failed to save analysis results"
                  /\ (ZoneStored(r) /\
                      \A k \in Surviving(AnalysedCache(r), req[r].frame_step) :
                          InZonePositions(AnalysedCache(r)[k], ZoneOf(r).polygon) = {})
                     => \A i \in 1..Len(req[r].analysis.counts_per_frame) :
                            req[r].analysis.counts_per_frame[i] = 0

C2_Witness ==
    \E r \in Analyses :
        /\ req[r].status = 200
        /\ AnalysedCache(r) # <<>>
        /\ \E k \in 1..Len(AnalysedCache(r)) : AnalysedCache(r)[k].boxes # <<>>
        /\ req[r].analysis.peak_count = 0
        /\ req[r].analysis.total_persons_passed = 0

\* C3 as claimed: stride 1000 on the ten entries with frame indices 0..9
\* fails with "No frames analyzed".
C3_Stride1000Fails ==
    \A r \in Analyses :
        (AnalysedCache(r) = TenFrameCache /\ req[r].frame_step = 1000)
            => req[r].error = "No frames analyzed"

\* C3 amended: stride 1000 on the ten entries with frame indices 0..9 keeps
\* the entry of frame 0 (0 % 1000 = 0), so the analysis produces a summary
\* of exactly one frame, the one with timestamp 0, and no error 400.
C3_Stride1000KeepsFrameZero ==
    \A r \in Analyses :
        (AnalysedCache(r) = TenFrameCache /\ req[r].frame_step = 1000)
            => /\ req[r].analysis # None
               /\ req[r].status # 400
               /\ req[r].analysis.frames_analyzed = 1
               /\ req[r].analysis.timestamps = <<FrameTimestamp(0)>>

C3_Witness ==
    \E r \in Analyses :
        /\ AnalysedCache(r) = TenFrameCache
        /\ req[r].frame_step = 1000
        /\ req[r].status = 200
        /\ req[r].analysis.frames_analyzed = 1

\* C4: every summary has as many counts as timestamps, frames_analyzed is
\* that number, and peak_count is the maximum of counts_per_frame.
SummaryShape(a) ==
    /\ Len(a.counts_per_frame) = Len(a.timestamps)
    /\ a.frames_analyzed = Len(a.counts_per_frame)
    /\ IsMaxOf(a.peak_count, a.counts_per_frame)

C4_CountsTimestampsPeak ==
    /\ \A r \in Summaries : SummaryShape(req[r].analysis)
    /\ \A f \in FeedIds : \A k \in 1..Len(feeds[f].zones) :
          feeds[f].zones[k].last_analysis # None
              => SummaryShape(feeds[f].zones[k].last_analysis)

C4_Witness ==
    \E r \in Summaries :
        /\ req[r].status = 200
        /\ Len(req[r].analysis.counts_per_frame) = 2
        /\ req[r].frame_step = 2
        /\ Len(AnalysedCache(r)) = 2
        /\ req[r].analysis.counts_per_frame[1] < req[r].analysis.counts_per_frame[2]

\* C5: total_count is the maximum of the per-frame counts (peak_count) in
\* the summary returned, in the zone's stored total_count and last_analysis,
\* and in every history entry.
C5_TotalCountIsPeak ==
    /\ \A r \in Summaries :
          /\ req[r].analysis.total_count = req[r].analysis.peak_count
          /\ IsMaxOf(req[r].analysis.total_count, req[r].analysis.counts_per_frame)
    /\ \A f \in FeedIds :
          /\ \A k \in 1..Len(feeds[f].zones) :
                feeds[f].zones[k].last_analysis # None =>
                    /\ feeds[f].zones[k].total_count = feeds[f].zones[k].last_analysis.peak_count
                    /\ IsMaxOf(feeds[f].zones[k].total_count,
                               feeds[f].zones[k].last_analysis.counts_per_frame)
          /\ \A h \in 1..Len(feeds[f].analysis_history) :
                feeds[f].analysis_history[h].total_count = feeds[f].analysis_history[h].peak_count

\* a finished analysis of two frames whose counts sum to more than their peak
C5_Witness ==
    \E r \in Summaries :
        /\ req[r].status = 200
        /\ ZoneStored(r)
        /\ ZoneOf(r).last_analysis = req[r].analysis
        /\ ZoneOf(r).total_count = 2
        /\ SumSeq(req[r].analysis.counts_per_frame) = 3
        /\ \E h \in 1..Len(feeds[req[r].feed_id].analysis_history) :
              /\ feeds[req[r].feed_id].analysis_history[h].analysis_id = req[r].analysis_id
              /\ feeds[req[r].feed_id].analysis_history[h].total_count = 2

\* C6: total_persons_passed of a summary is never negative, and it is 0
\* exactly when no box of an analysed frame has its centroid in the polygon,
\* which is exactly when every per-frame count is 0.
C6_PersonsPassedZeroIffNoBoxInZone ==
    \A r \in Summaries :
        /\ req[r].analysis.total_persons_passed >= 0
        /\ (req[r].analysis.total_persons_passed = 0)
              <=> (\A i \in 1..Len(req[r].analysis.counts_per_frame) :
                       req[r].analysis.counts_per_frame[i] = 0)
        /\ ZoneStored(r) =>
              ((req[r].analysis.total_persons_passed = 0)
                  <=> (\A k \in Surviving(AnalysedCache(r), req[r].frame_step) :
                           InZonePositions(AnalysedCache(r)[k], ZoneOf(r).polygon) = {}))

\* a summary with a positive count whose only in-zone centroid lies on the
\* polygon's boundary
C6_Witness ==
    \E r \in Summaries :
        /\ ZoneStored(r)
        /\ ZoneOf(r).polygon = PolyLeft
        /\ AnalysedCache(r) = <<Detection(0, <<BoxC>>), Detection(1, <<BoxD, BoxC>>)>>
        /\ req[r].analysis.counts_per_frame = <<0, 1>>
        /\ req[r].analysis.total_persons_passed = 1

\* C7: total_persons_passed >= peak_count is not an invariant: a single
\* frame with the two overlapping in-zone boxes BoxA, BoxB (IoU 12/20) in the
\* square zone is summarised with peak_count 2 and total_persons_passed 1.
OverlappingPairCache == <<Detection(0, <<BoxA, BoxB>>)>>

C7_PersonsPassedBelowPeak ==
    \A r \in Summaries :
        (AnalysedCache(r) = OverlappingPairCache /\ ZoneStored(r)
         /\ ZoneOf(r).polygon = PolySquare)
            => /\ req[r].analysis.peak_count = 2
               /\ req[r].analysis.total_persons_passed = 1
               /\ req[r].analysis.total_persons_passed < req[r].analysis.peak_count

C7_Witness ==
    \E r \in Summaries :
        /\ AnalysedCache(r) = OverlappingPairCache
        /\ ZoneStored(r)
        /\ ZoneOf(r).polygon = PolySquare
        /\ req[r].status = 200
        /\ req[r].analysis.total_persons_passed < req[r].analysis.peak_count

\* C8: two frames 0 and 1 with one in-zone box each, analysed with
\* frame_step 1, give counts [1, 1]; total_persons_passed is 1 if the IoU of
\* the two boxes is above 3/10 and 2 if it is below 3/10.
OverlapLength(lo1, hi1, lo2, hi2) == Max2(0, Min2(hi1, hi2) - Max2(lo1, lo2))
BoxArea(b) == (b[3] - b[1]) * (b[4] - b[2])
Intersection(a, b) == OverlapLength(a[1], a[3], b[1], b[3]) * OverlapLength(a[2], a[4], b[2], b[4])
Union(a, b) == BoxArea(a) + BoxArea(b) - Intersection(a, b)

TwoSingleBoxFrames(r) ==
    /\ Len(AnalysedCache(r)) = 2
    /\ AnalysedCache(r)[1].frame = 0
    /\ AnalysedCache(r)[2].frame = 1
    /\ Len(AnalysedCache(r)[1].boxes) = 1
    /\ Len(AnalysedCache(r)[2].boxes) = 1
    /\ req[r].frame_step = 1
    /\ ZoneStored(r)
    /\ InZonePositions(AnalysedCache(r)[1], ZoneOf(r).polygon) = {1}
    /\ InZonePositions(AnalysedCache(r)[2], ZoneOf(r).polygon) = {1}

C8_TwoFramesOneBoxEach ==
    \A r \in Summaries :
        TwoSingleBoxFrames(r) =>
            LET a == AnalysedCache(r)[1].boxes[1]
                b == AnalysedCache(r)[2].boxes[1]
            IN /\ req[r].analysis.counts_per_frame = <<1, 1>>
               /\ 10 * Intersection(a, b) > 3 * Union(a, b)
                     => req[r].analysis.total_persons_passed = 1
               /\ 10 * Intersection(a, b) < 3 * Union(a, b)
                     => req[r].analysis.total_persons_passed = 2

\* the IoU of BoxB and BoxC is 8/24, just above the threshold
C8_Witness ==
    \E r \in Summaries :
        /\ TwoSingleBoxFrames(r)
        /\ AnalysedCache(r)[1].boxes = <<BoxB>>
        /\ AnalysedCache(r)[2].boxes = <<BoxC>>
        /\ req[r].status = 200
        /\ req[r].analysis.total_persons_passed = 1

\* C9: a summary computed for a zone that already stores the summary of an
\* earlier run with the same frame_step (same cache, same polygon) has the
\* same counts, timestamps, statistics, total_count and
\* total_persons_passed as the stored one.
SameResult(a, b) ==
    /\ a.counts_per_frame = b.counts_per_frame
    /\ a.timestamps = b.timestamps
    /\ a.frames_analyzed = b.frames_analyzed
    /\ a.avg_count = b.avg_count
    /\ a.min_count = b.min_count
    /\ a.peak_count = b.peak_count
    /\ a.peak_time = b.peak_time
    /\ a.total_count = b.total_count
    /\ a.total_persons_passed = b.total_persons_passed
    /\ a.duration = b.duration

C9_SameInputsSameResult ==
    \A r \in Summaries :
        (/\ req[r].pc = "write_zone"
         /\ ZoneStored(r)
         /\ ZoneOf(r).last_analysis # None
         /\ ZoneOf(r).last_analysis.frame_step = req[r].frame_step)
            => SameResult(req[r].analysis, ZoneOf(r).last_analysis)

C9_Witness ==
    \E r \in Summaries :
        /\ req[r].pc = "write_zone"
        /\ ZoneStored(r)
        /\ ZoneOf(r).last_analysis # None
        /\ ZoneOf(r).last_analysis.frame_step = req[r].frame_step
        /\ ZoneOf(r).last_analysis.analyzed_at # req[r].analysis.analyzed_at
        /\ req[r].analysis.total_persons_passed = 2
        /\ feeds[req[r].feed_id].analysis_history # <<>>

\* C10: when analyze_zone has finished after producing a summary, the zone's
\* last_analysis was replaced by it if and only if its history entry was
\* appended.
C10_WritesTogether ==
    \A r \in Summaries :
        req[r].pc = "done" => (req[r].wrote_zone <=> req[r].wrote_history)

\* C11: analysis_history of every feed only grows at its end: a step of
\* create_zone, update_zone, delete_zone or analyze_zone leaves the entries
\* already stored where they are and as they are; the history changes only
\* in the step in which an analyze_zone finishes with 200, and that step
\* appends exactly one entry, the one of that analysis, at the end.
C11_HistoryAppendOnly ==
    [][\A f \in FeedIds :
          LET h == feeds[f].analysis_history
              h2 == feeds'[f].analysis_history
              finishing == {r \in Reqs : /\ req[r].op = "analyze_zone"
                                         /\ req[r].feed_id = f
                                         /\ req[r].pc # "done"
                                         /\ req'[r].pc = "done"
                                         /\ req'[r].status = 200}
          IN /\ Len(h2) >= Len(h)
             /\ SubSeq(h2, 1, Len(h)) = h
             /\ finishing = {} => h2 = h
             /\ \A r \in finishing :
                   /\ Len(h2) = Len(h) + 1
                   /\ h2[Len(h2)].analysis_id = req'[r].analysis_id
                   /\ h2[Len(h2)].zone_id = req[r].zone_id
                   /\ h2[Len(h2)].peak_count = req[r].analysis.peak_count
                   /\ \A k \in 1..Len(h) : h[k].analysis_id # req'[r].analysis_id]_vars

\* a history entry outlives its zone, which delete_zone removed
C11_Witness ==
    \E f \in FeedIds :
        /\ feeds[f].analysis_history # <<>>
        /\ ZoneIndices(feeds[f], feeds[f].analysis_history[1].zone_id) = {}
        /\ \E r \in Reqs : req[r].op = "delete_zone" /\ req[r].status = 200

\* C12: no step of get_detections, create_zone, update_zone, delete_zone or
\* analyze_zone changes the detections_cache of any feed: the cache stays as
\* upload_video stored it, and get_detections answers with exactly that cache.
C12_CacheImmutable ==
    [][/\ \A f \in FeedIds : feeds'[f].detections_cache = feeds[f].detections_cache
       /\ \A r \in Reqs :
             req'[r].op = "get_detections" =>
                req'[r].detections = SystemCache(req'[r].feed_id)]_vars

\* an analysis with stride 2 was stored on a zone of the two-frame feed and
\* the feed still holds both frames
C12_Witness ==
    \E r \in Summaries :
        /\ req[r].status = 200
        /\ req[r].wrote_zone
        /\ req[r].frame_step = 2
        /\ Len(AnalysedCache(r)) = 2
        /\ AnalysedCache(r) = SystemCache(req[r].feed_id)

\* C13: a polygon with fewer than 3 points is never stored: create_zone and
\* update_zone answer it with 400 and leave every feed as it was, every
\* polygon stored on a zone or waiting in an update_zone's $set has at least
\* 3 points, and so has every polygon that analyze_zone reads from a zone.
C13_ShortPolygonRejected ==
    [][/\ \A f \in FeedIds : \A k \in 1..Len(feeds'[f].zones) :
             LET z == feeds'[f].zones[k]
             IN /\ "zone_id" \in DOMAIN z => "polygon" \in DOMAIN z
                /\ "polygon" \in DOMAIN z => Len(z.polygon) >= 3
       /\ \A r \in Reqs :
             /\ (req'[r].pc = "update_write" /\ "polygon" \in DOMAIN req'[r].update_fields)
                   => Len(req'[r].update_fields.polygon) >= 3
             /\ (req'[r].op = "analyze_zone" /\ req'[r].polygon # <<>>)
                   => Len(req'[r].polygon) >= 3
             /\ (/\ req'[r].seq # req[r].seq
                 /\ req'[r].error \in {"Polygon must contain at least 3 points",
                                       "Polygon must have at least 3 points"})
                   => /\ req'[r].pc = "done"
                      /\ req'[r].status = 400
                      /\ feeds' = feeds]_vars

\* update_zone refused a two-point polygon for a zone that keeps the polygon
\* it was created with
C13_Witness ==
    \E r \in Reqs :
        /\ req[r].op = "update_zone"
        /\ req[r].error = "Polygon must have at least 3 points"
        /\ ZoneStored(r)
        /\ ZoneOf(r).polygon \in ValidPolygons

\* the cache without its malformed boxes
Repaired(cache) ==
    [k \in 1..Len(cache) |->
        [cache[k] EXCEPT !.boxes =
            SelectSeq(@, LAMBDA b : Len(b) = 4 /\ \A i \in 1..4 : b[i] # NonNumeric)]]

\* the cache entries that the stride keeps, in cache order
KeptFrames(cache, frame_step) == SelectSeq(cache, LAMBDA det : det.frame % frame_step = 0)

\* C14: a cached box of the wrong arity or with a non-numeric entry is
\* skipped and nothing else is: the analysis produces a summary whenever a
\* frame survives the stride and answers 200, each frame's count is the number
\* of its well-formed boxes with centroid in the zone, and the whole result
\* (counts, statistics, total_persons_passed) is the result on the cache with
\* the malformed boxes removed, so that no malformed box made or touched a
\* tracked person.
C14_MalformedBoxSkipped ==
    \A r \in Analyses :
        LET cache == AnalysedCache(r)
            kept == KeptFrames(cache, req[r].frame_step)
            clean == AnalyzePass(StartPass(feeds[req[r].feed_id], ZoneOf(r)), Repaired(cache),
                                 ZoneOf(r).polygon, req[r].frame_step)
        IN kept # <<>> =>
              /\ req[r].analysis # None
              /\ req[r].pc = "done" => req[r].status = 200
              /\ Len(req[r].analysis.counts_per_frame) = Len(kept)
              /\ \A i \in 1..Len(kept) :
                    req[r].analysis.counts_per_frame[i] =
                       Cardinality({j \in 1..Len(kept[i].boxes) :
                                       /\ Len(kept[i].boxes[j]) = 4
                                       /\ \A c \in 1..4 : kept[i].boxes[j][c] # NonNumeric
                                       /\ BoxInZone(kept[i].boxes[j], ZoneOf(r).polygon)})
              /\ SameResult(req[r].analysis,
                            AnalysisSummary(clean, ZoneOf(r), req[r].frame_step, 0, req[r].user))

\* a frame with a box of three entries, a box with a non-numeric entry and a
\* well-formed box in the zone was analysed: count 1, one person
C14_Witness ==
    \E r \in Analyses :
        /\ req[r].status = 200
        /\ \E k \in 1..Len(AnalysedCache(r)) :
              /\ AnalysedCache(r)[k].frame % req[r].frame_step = 0
              /\ AnalysedCache(r)[k].boxes = <<BoxShort, BoxA, BoxText>>
        /\ req[r].analysis.peak_count = 1
        /\ req[r].analysis.total_persons_passed = 1

\* C15: for boxes with x1 <= x2 and y1 <= y2 the value of calculate_iou is a
\* number from 0 to 1, and it is 0 when the boxes have no area in common or
\* the area of their union is zero.
C15_IouRange ==
    (iou_call # None /\ iou_call.iou # <<>>) =>
        LET a == iou_call.box1
            b == iou_call.box2
            n == iou_call.iou[1]
            d == iou_call.iou[2]
        IN (a[1] <= a[3] /\ a[2] <= a[4] /\ b[1] <= b[3] /\ b[2] <= b[4]) =>
              /\ d > 0
              /\ 0 <= n
              /\ n <= d
              /\ (Intersection(a, b) = 0 \/ Union(a, b) = 0) => n = 0
              /\ n * Union(a, b) = d * Intersection(a, b)

\* two boxes of positive area that overlap in part: 0 < IoU < 1
C15_Witness ==
    /\ iou_call # None
    /\ iou_call.iou # <<>>
    /\ BoxArea(iou_call.box1) > 0
    /\ BoxArea(iou_call.box2) > 0
    /\ 0 < iou_call.iou[1]
    /\ iou_call.iou[1] < iou_call.iou[2]

\* C16: calculate_iou(a, b) and calculate_iou(b, a) are the same number, and
\* calculate_iou(a, a) is 1 for a box with x1 < x2 and y1 < y2.
C16_IouSymmetric ==
    (iou_call # None /\ iou_call.iou # <<>>) =>
        /\ iou_call.iou_swapped # <<>> =>
              iou_call.iou[1] * iou_call.iou_swapped[2]
                 = iou_call.iou_swapped[1] * iou_call.iou[2]
        /\ (/\ iou_call.box1 = iou_call.box2
            /\ iou_call.box1[1] < iou_call.box1[3]
            /\ iou_call.box1[2] < iou_call.box1[4])
              => iou_call.iou[1] = iou_call.iou[2]

\* both orders were computed for two different boxes of different area that
\* overlap
C16_Witness ==
    /\ iou_call # None
    /\ iou_call.iou # <<>>
    /\ iou_call.iou_swapped # <<>>
    /\ BoxArea(iou_call.box1) < BoxArea(iou_call.box2)
    /\ iou_call.iou[1] > 0
    /\ iou_call.iou = iou_call.iou_swapped

\* the entries of a history that belong to an analysis
EntriesOf(history, analysis_id) ==
    {k \in 1..Len(history) : history[k].analysis_id = analysis_id}

\* C17: analyses of different zones that run at the same time do not
\* interfere. Every summary is the one the pass gives on the request's own
\* cache, polygon and stride: its counts are the in-zone counts of the frames
\* its stride keeps and it equals the result of a pass run alone. When two
\* overlapping requests on different zones have both finished, each zone's
\* last_analysis and total_count are those of its own request and the history
\* of its feed holds exactly one entry for each of the two analyses.
C17_DifferentZonesIndependent ==
    /\ \A r \in Summaries :
          LET kept == KeptFrames(AnalysedCache(r), req[r].frame_step)
              zone == ZoneOf(r)
              alone == AnalyzePass(StartPass(feeds[req[r].feed_id], zone), AnalysedCache(r),
                                   zone.polygon, req[r].frame_step)
          IN /\ req[r].analysis.zone_id = req[r].zone_id
             /\ req[r].analysis.counts_per_frame =
                   [i \in 1..Len(kept) |->
                       Cardinality(InZonePositions(kept[i], zone.polygon))]
             /\ SameResult(req[r].analysis,
                           AnalysisSummary(alone, zone, req[r].frame_step, 0, req[r].user))
    /\ (/\ ops = 2
        /\ \A r \in Reqs : req[r].pc = "done" /\ req[r].status = 200
        /\ req["r1"].zone_id # req["r2"].zone_id)
          => \A r \in Reqs :
                LET history == feeds[req[r].feed_id].analysis_history
                IN /\ ZoneOf(r).last_analysis = req[r].analysis
                   /\ ZoneOf(r).total_count = req[r].analysis.total_count
                   /\ Cardinality(EntriesOf(history, req[r].analysis_id)) = 1
                   /\ \A k \in EntriesOf(history, req[r].analysis_id) :
                         /\ history[k].zone_id = req[r].zone_id
                         /\ history[k].peak_count = req[r].analysis.peak_count
                         /\ history[k].total_persons_passed
                               = req[r].analysis.total_persons_passed
                   /\ Len(history) = Cardinality({q \in Reqs : req[q].feed_id = req[r].feed_id})

\* two overlapping analyses of the two zones of one feed have finished with
\* different results
C17_Witness ==
    /\ ops = 2
    /\ \A r \in Reqs : req[r].pc = "done" /\ req[r].status = 200
    /\ req["r1"].feed_id = req["r2"].feed_id
    /\ req["r1"].zone_id = 2
    /\ req["r2"].zone_id = 1
    /\ req["r1"].analysis.counts_per_frame # req["r2"].analysis.counts_per_frame
    /\ req["r2"].analysis_id < req["r1"].analysis_id

\* C18: no two documents of the users collection have the same email and
\* the same role.
C18_UniqueEmailRole ==
    \A i \in 1..Len(users) : \A j \in 1..Len(users) :
        (users[i].email = users[j].email /\ users[i].role = users[j].role) => i = j

\* the admin endpoints
AdminOps == {"get_all_users", "add_user", "edit_user", "delete_user"}

\* C19: an admin endpoint called with a token that login issued under role
\* "admin" does not answer 403, and called with a token issued under role
\* "user" it answers 403, whatever the users collection holds.
C19_UserTokenDenied ==
    \A r \in Reqs :
        req[r].op \in AdminOps =>
            /\ req[r].identity.role = "admin" => req[r].status # 403
            /\ req[r].identity.role = "user" => req[r].status = 403

\* C20: the pass visits the cache in stored order and takes an entry exactly
\* when its frame index is a multiple of the stride: counts_per_frame and
\* timestamps have one element for each such entry, in cache order, the
\* count being the number of that entry's boxes in the zone; with stride 1
\* every entry is taken.
C20_FrameSelection ==
    \A r \in Summaries :
        LET cache == AnalysedCache(r)
            taken == {k \in 1..Len(cache) : cache[k].frame % req[r].frame_step = 0}
            \* the position in the cache of the i-th taken entry
            nth(i) == CHOOSE k \in taken : Cardinality({j \in taken : j <= k}) = i
            a == req[r].analysis
        IN /\ a.frames_analyzed = Cardinality(taken)
           /\ Len(a.counts_per_frame) = Cardinality(taken)
           /\ Len(a.timestamps) = Cardinality(taken)
           /\ \A i \in 1..Cardinality(taken) :
                 /\ a.timestamps[i] = cache[nth(i)].timestamp
                 /\ a.counts_per_frame[i] =
                       Cardinality(InZonePositions(cache[nth(i)], req[r].polygon))
           /\ req[r].frame_step = 1 => Len(a.counts_per_frame) = Len(cache)

\* stride 2 on the frames 1 and 12 took only the second entry, whose boxes
\* are in the zone, and left out a first entry that has boxes in the zone
C20_Witness ==
    \E r \in Summaries :
        /\ req[r].status = 200
        /\ req[r].frame_step = 2
        /\ Len(AnalysedCache(r)) = 2
        /\ AnalysedCache(r)[1].frame = 1
        /\ AnalysedCache(r)[2].frame = 12
        /\ InZonePositions(AnalysedCache(r)[1], req[r].polygon) # {}
        /\ req[r].analysis.counts_per_frame = <<2>>

\* C21: the count of an analysed frame is the number of its boxes with the
\* centroid in the polygon and is a function of that frame's boxes and the
\* polygon alone: two analysed frames with the same boxes have the same
\* count, and the count is the one a pass over that frame alone gives,
\* whatever the earlier frames left in tracked_persons.
C21_CountPerFrameLocal ==
    \A r \in Summaries :
        LET kept == KeptFrames(AnalysedCache(r), req[r].frame_step)
            counts == req[r].analysis.counts_per_frame
            alone(det) == AnalyzePass(StartPass(feeds[req[r].feed_id], ZoneOf(r)),
                                      <<det>>, req[r].polygon, 1)
        IN /\ Len(counts) = Len(kept)
           /\ \A i \in 1..Len(kept) :
                 /\ counts[i] = Cardinality(InZonePositions(kept[i], req[r].polygon))
                 /\ <<counts[i]>> = alone(kept[i]).counts
                 /\ \A j \in 1..Len(kept) :
                       kept[i].boxes = kept[j].boxes => counts[i] = counts[j]

\* the same in-zone box in two analysed frames: one person, counted in each
\* frame
C21_Witness ==
    \E r \in Summaries :
        /\ req[r].status = 200
        /\ Len(AnalysedCache(r)) = 2
        /\ AnalysedCache(r)[1].boxes = <<BoxA>>
        /\ AnalysedCache(r)[2].boxes = <<BoxA>>
        /\ req[r].analysis.counts_per_frame = <<1, 1>>
        /\ req[r].analysis.total_persons_passed = 1

\* C22: peak_time is the timestamp of the first analysed frame, in cache
\* order, whose count is peak_count: every analysed frame before it has a
\* smaller count.
C22_PeakTimeFirstMaximum ==
    \A r \in Summaries :
        LET kept == KeptFrames(AnalysedCache(r), req[r].frame_step)
            a == req[r].analysis
        IN \E i \in 1..Len(kept) :
              /\ a.counts_per_frame[i] = a.peak_count
              /\ \A j \in 1..(i - 1) : a.counts_per_frame[j] < a.peak_count
              /\ \A j \in 1..Len(kept) : a.counts_per_frame[j] <= a.peak_count
              /\ a.peak_time = kept[i].timestamp

\* two analysed frames tie for the maximum and the earlier one is reported
C22_Witness ==
    \E r \in Summaries :
        /\ req[r].status = 200
        /\ Len(req[r].analysis.counts_per_frame) = 2
        /\ req[r].analysis.counts_per_frame[1] = req[r].analysis.counts_per_frame[2]
        /\ req[r].analysis.peak_count >= 1
        /\ req[r].analysis.timestamps[1] < req[r].analysis.timestamps[2]
        /\ req[r].analysis.peak_time = req[r].analysis.timestamps[1]

\* the loop taken step by step ends in the state that AnalyzePass computes
TrackerAgreesWithPass ==
    tracker.pc = "done" =>
        tracker.st = AnalyzePass(StartPass(FeedDoc("owner@x", tracker.detections_cache),
                                           ZoneDoc(1, "entrance", tracker.polygon, 0)),
                                 tracker.detections_cache, tracker.polygon,
                                 tracker.frame_step)

\* C23: in every step of a pass tracked_persons only grows: the persons it
\* holds keep their place, id and first_frame; the ids are 0, 1, 2, ... in
\* order of creation; a person created in a step has first_frame and
\* last_frame equal to the index of the frame being processed; and the pass
\* reports total_persons_passed = the number of ids handed out.
C23_PersonsOnlyAdded ==
    [][LET before == tracker.st.tracked_persons
           after == tracker'.st.tracked_persons
       IN /\ Len(after) >= Len(before)
          /\ \A k \in 1..Len(before) :
                /\ after[k].id = before[k].id
                /\ after[k].first_frame = before[k].first_frame
          /\ \A k \in 1..Len(after) : after[k].id = k - 1
          /\ tracker'.st.next_person_id = Len(after)
          /\ \A k \in (Len(before) + 1)..Len(after) :
                /\ tracker.pc = "for_box"
                /\ tracker.detections_cache[tracker.pos].frame = tracker.frame_idx
                /\ after[k].first_frame = tracker.frame_idx
                /\ after[k].last_frame = tracker.frame_idx
          /\ tracker'.pc = "done" =>
                /\ tracker'.total_persons_passed = tracker'.st.next_person_id
                /\ tracker'.total_persons_passed = Len(after)]_vars

\* a finished pass that created two persons in different frames and matched
\* the first of them again after its creation
C23_Witness ==
    /\ tracker.pc = "done"
    /\ tracker.total_persons_passed = 2
    /\ tracker.st.tracked_persons[1].first_frame < tracker.st.tracked_persons[1].last_frame
    /\ tracker.st.tracked_persons[2].first_frame > tracker.st.tracked_persons[1].first_frame

\* the analysed frames that the loop has finished before the current one
FramesDone ==
    {tracker.detections_cache[i].frame : i \in
        {j \in 1..(tracker.pos - 1) :
            ~FrameSkipped(tracker.detections_cache[j].frame, tracker.frame_step)}}

\* C24: in the step that handles one in-zone box, the candidates are the
\* persons whose last_frame is at most 10 frame indices before the current
\* frame and whose last_box has IoU > 0.3 (strictly) with the box. Without a
\* candidate a new person is appended; otherwise exactly one candidate, one
\* with the highest IoU, takes the box and the frame. When every earlier
\* analysed frame is more than 10 indices back, only a person created in
\* the current frame can be matched.
C24_MatchRule ==
    [][(tracker.pc = "for_box" /\ tracker.boxes_in_zone # <<>>) =>
          LET box == Head(tracker.boxes_in_zone)
              f == tracker.frame_idx
              before == tracker.st.tracked_persons
              after == tracker'.st.tracked_persons
              I(k) == Intersection(box, before[k].last_box)
              U(k) == Union(box, before[k].last_box)
              cand == {k \in 1..Len(before) :
                          /\ f - before[k].last_frame <= 10
                          /\ U(k) > 0
                          /\ 10 * I(k) > 3 * U(k)}
          IN /\ cand = {} =>
                   after = Append(before, [id |-> Len(before), first_frame |-> f,
                                           last_frame |-> f, last_box |-> box])
             /\ cand # {} =>
                   \E k \in cand :
                       /\ after = [before EXCEPT ![k] = [id |-> before[k].id,
                                                         first_frame |-> before[k].first_frame,
                                                         last_frame |-> f,
                                                         last_box |-> box]]
                       /\ \A j \in cand : I(k) * U(j) >= I(j) * U(k)
                       /\ (\A g \in FramesDone : f - g > 10) => before[k].first_frame = f]_vars

\* a finished pass with three persons: the second has the box of the first
\* but was created more than 10 frame indices after it was last seen, and
\* the third has IoU exactly 0.3 with the second, seen in the same frame
C24_Witness ==
    /\ tracker.pc = "done"
    /\ Len(tracker.st.tracked_persons) = 3
    /\ LET p == tracker.st.tracked_persons
       IN /\ p[1].last_box = p[2].last_box
          /\ p[2].first_frame - p[1].last_frame > 10
          /\ p[3].first_frame = p[2].last_frame
          /\ 10 * Intersection(p[3].last_box, p[2].last_box)
                = 3 * Union(p[3].last_box, p[2].last_box)

\* C26: when the inner loop of a frame is finished, the person ids it
\* attributed its in-zone boxes to are pairwise different, so the number of
\* distinct persons touched in the frame equals the frame's count.
C26_DistinctPersonsPerFrame ==
    (tracker.pc = "for_box" /\ tracker.boxes_in_zone = <<>>) =>
        LET touched == tracker.st.current_frame_persons
        IN /\ Len(touched) = tracker.count_in_zone
           /\ \A i \in 1..Len(touched), j \in 1..Len(touched) :
                 i # j => touched[i] # touched[j]
           /\ Cardinality({touched[i] : i \in 1..Len(touched)}) = tracker.count_in_zone

\* C27: a finished pass reports at most as many persons as it counted
\* in-zone boxes over its analysed frames; the same holds after every step
\* for the boxes handled so far.
C27_PersonsBelowBoxes ==
    /\ Len(tracker.st.tracked_persons)
         <= SumSeq(tracker.st.counts) + Len(tracker.st.current_frame_persons)
    /\ tracker.pc = "done" =>
         /\ tracker.total_persons_passed <= SumSeq(tracker.st.counts)
         /\ tracker.total_persons_passed
              <= SumSeq([i \in 1..Len(KeptFrames(tracker.detections_cache, tracker.frame_step)) |->
                           Cardinality(InZonePositions(
                               KeptFrames(tracker.detections_cache, tracker.frame_step)[i],
                               tracker.polygon))])

\* a finished pass in which every in-zone box became a person, next to a box
\* that is outside the zone
C27_Witness ==
    /\ tracker.pc = "done"
    /\ tracker.total_persons_passed = 2
    /\ SumSeq(tracker.st.counts) = 2
    /\ \E i \in 1..Len(tracker.detections_cache) :
          Len(tracker.detections_cache[i].boxes) > tracker.st.counts[i]

\* C25: for every box and polygon the three classifications agree:
\* _is_box_in_zone, the per-box test of analyze_zone and the per-box test
\* of analyze_frame give the same in-zone answer.
C25_CentroidConsistent ==
    LET answers == {zone_test.is_box_in_zone, zone_test.analyze_zone,
                    zone_test.analyze_frame} \ {"-"}
    IN Cardinality(answers) <= 1

\* no analyze_zone call is between its read and its last write
Quiescent == \A r \in Reqs : req[r].pc \in {"idle", "done"}

\* the positions of the history entries of one zone, in order of appending
HistoryOf(f, zone_id) ==
    {i \in 1..Len(feeds[f].analysis_history) :
        feeds[f].analysis_history[i].zone_id = zone_id}

\* C28: once the running analyze_zone calls have all answered, for every
\* zone with a last_analysis the most recently appended analysis_history
\* entry of that zone_id has the avg_count, peak_count and
\* total_persons_passed of the zone's last_analysis.
C28_HistoryMatchesLastAnalysis ==
    Quiescent =>
        \A f \in FeedIds : \A k \in 1..Len(feeds[f].zones) :
            LET zone == feeds[f].zones[k]
                mine == HistoryOf(f, zone.zone_id)
            IN zone.last_analysis # None =>
                  /\ mine # {}
                  /\ LET last == feeds[f].analysis_history[
                                     CHOOSE i \in mine : \A j \in mine : j <= i]
                     IN /\ last.avg_count[1] * zone.last_analysis.avg_count[2]
                             = zone.last_analysis.avg_count[1] * last.avg_count[2]
                        /\ last.peak_count = zone.last_analysis.peak_count
                        /\ last.total_persons_passed
                             = zone.last_analysis.total_persons_passed

\* C29: the write of update_zone leaves every element of the feed's zones
\* array that is not the zone with the given zone_id as it was, and adds no
\* element, whatever was served between its read and its write.
C29_UpdateTouchesOnlyItsZone ==
    [][\A r \in Reqs :
          (req[r].pc = "update_write" /\ req'[r].pc = "done") =>
              LET before == feeds[req[r].feed_id].zones
                  after == feeds'[req[r].feed_id].zones
              IN /\ Len(after) = Len(before)
                 /\ \A k \in 1..Len(before) :
                       ~HasZoneId(before[k], req[r].zone_id) => after[k] = before[k]]_vars

FeedOps == {"get_detections", "create_zone", "delete_zone", "update_zone", "analyze_zone"}

\* every token issued for this email so far was issued under role user
OnlyUserLogins(email) == \A i \in tokens : i.email = email => i.role = "user"

\* C30: a feed endpoint called for a feed of another owner by a caller
\* whose logins were all under role "user" is not served and leaves the
\* feeds as they are: it answers 403 (create_zone answers 400 to a polygon
\* that it rejects before it reads the feed), whatever the users collection
\* holds.
C30_UserTokenCannotReachForeignFeed ==
    [][\A r \in Reqs :
          (/\ req'[r].seq = ops + 1
           /\ ops' = ops + 1
           /\ req'[r].op \in FeedOps
           /\ req'[r].user # feeds[req'[r].feed_id].email
           /\ OnlyUserLogins(req'[r].user)) =>
              /\ feeds' = feeds
              /\ req'[r].pc = "done"
              /\ req'[r].detections = <<>>
              /\ \/ req'[r].status = 403
                 \/ req'[r].op = "create_zone" /\ req'[r].status = 400]_vars

====
